---------------------------- MODULE Spec2Model ----------------------------
(***************************************************************************)
(* News aggregation pipeline of RAP_HeadLine_HQ: source adapters           *)
(* (src/src/crawlers.py) and the aggregation, de-duplication, time         *)
(* filtering and ranking of their items (src/src/pipeline.py).             *)
(*                                                                         *)
(* Conventions of the model                                                *)
(*  - an impact score is an integer number of tenths (5.0 is 50);          *)
(*  - a time is an integer number of hours; a timestamp string is a record *)
(*    of its format, the wall-clock reading it shows and its UTC offset;    *)
(*    the machine's local zone is UTC;                                     *)
(*  - a title is the sequence of its whitespace-separated words (titles    *)
(*    are stored stripped, crawlers.py:75 and :196), a word, an URL and a  *)
(*    source are strings;                                                  *)
(*  - a news item is a record of the keys of the Python dict, with `id`    *)
(*    standing for the identity of the dict object.                        *)
(***************************************************************************)
EXTENDS Integers, Sequences, FiniteSets, TLC

VARIABLES
    clock,      \* the machine's clock (datetime.now()), in hours
    dIn,        \* de-duplication harness: the list handed to a de-duplicator
    dFn,        \* which de-duplicator ran ("none" before the call)
    dOut,       \* what it returned: [raised, value]
    fIn,        \* filter harness: the list handed to a filter
    fRange,     \* the caller's time range
    fThr,       \* the caller's impact threshold, in tenths
    fFn,        \* which function ran ("none" before the call)
    fRuns,      \* how many times it ran
    fOut,       \* what it returned: [raised, value]
    sItem,      \* scoring harness: the item an adapter built
    sFn,        \* which adapter built it, or the filter that boosted it
    sCall,      \* the arguments the scorer was called with for it
    pc,         \* query flows: "idle", "gather" (inside asyncio.gather), "done"
    qFlow,      \* the handler that runs: process_news_query or
                \* process_enterprise_query ("none" before the call)
    qCompany,   \* its arguments: company,
    qRange,     \* time_range,
    qThr,       \* impact_threshold, in tenths,
    qSession,   \* and session_id
    tasks,      \* the coroutines handed to asyncio.gather, in order
    frame,      \* the locals of the coroutine the event loop is running
    rss_feeds,  \* config.crawler.rss_feeds, shared by every RSSCrawler
    ranked,     \* the ranked list of the query
    summarized, \* the list handed to the summarizer
    outcome,    \* which return statement of the handler was taken
    session_data, \* EnterpriseNewsPipeline.session_data
    pool,       \* concurrent requests: the UI threads that serve requests
    tPc,        \* where each thread is in process_enterprise_query
    tArgs,      \* the arguments of the thread's query
    tNews,      \* its all_news
    tFeeds,     \* the feed URLs its call of RSSCrawler.fetch polled
    tOut,       \* what its last query returned and stored
    nQueries,   \* how many queries have been made
    recent      \* per session, the record of the query that ended last

dedupVars  == <<dIn, dFn, dOut>>
filterVars == <<fIn, fRange, fThr, fFn, fRuns, fOut>>
scoreVars  == <<sItem, sFn, sCall>>
queryVars  == <<pc, qFlow, qCompany, qRange, qThr, qSession, tasks, frame,
               rss_feeds, ranked, summarized, outcome, session_data>>
flowVars   == <<pc, qFlow, qCompany, qRange, qThr, qSession, tasks, frame,
               ranked, summarized, outcome>>
threadVars == <<pool, tPc, tArgs, tNews, tFeeds, tOut, nQueries, recent>>
vars == <<clock, dedupVars, filterVars, scoreVars, queryVars, threadVars>>

---------------------------------------------------------------------------
(* Bounds of the model *)

MaxDedup == 3
MaxList  == 2
MaxRuns  == 2
MaxWords == 3
MaxBasicWords == 4

---------------------------------------------------------------------------
(* Strings *)

Max(a, b) == IF a >= b THEN a ELSE b
Min(a, b) == IF a <= b THEN a ELSE b

\* str.lower() on the words of the model's vocabulary
LowerWord(w) ==
    CASE w = "Tesla" -> "tesla"
      [] w = "Texas" -> "texas"
      [] w = "Update" -> "update"
      [] w = "Acme" -> "acme"
      [] w = "X" -> "x"
      [] OTHER -> w

\* str.lower() on a title
LowerTitle(title) == [i \in DOMAIN title |-> LowerWord(title[i])]

\* str.split(): the list of the words of a (stripped) title
Split(title) == title

\* set(list)
ToSet(seq) == {seq[i] : i \in DOMAIN seq}

\* len(str) of a text given as its words: the letters and the single spaces
RECURSIVE StrLen(_)
StrLen(words) ==
    IF words = <<>> THEN 0
    ELSE IF Len(words) = 1 THEN Len(words[1])
    ELSE Len(words[1]) + 1 + StrLen(Tail(words))

\* `needle in word` for a needle without spaces, on the lower-cased words of
\* the model: the pairs (word, needle) in which the needle is a proper
\* substring of the word
ProperSubstrings ==
    { <<"updates", "update">>, <<"launches", "launch">>,
      <<"capital", "ap">>,
      <<"rss-reuters business", "reuters">>,
      <<"rss-snapchat news", "ap">>,
      <<"\"usa today\"", "today">> }

WordHas(word, needle) == word = needle \/ <<word, needle>> \in ProperSubstrings

\* `keyword in text`: text is the sequence of the lower-cased words of a
\* string, keyword a sequence of one or two words (a keyword of two words
\* matches two neighbouring words)
KeywordIn(keyword, text) ==
    IF Len(keyword) = 1
    THEN \E i \in DOMAIN text : WordHas(text[i], keyword[1])
    ELSE \E i \in DOMAIN text :
            /\ i + 1 \in DOMAIN text
            /\ text[i] = keyword[1]
            /\ text[i + 1] = keyword[2]

\* the number of keywords of a list found in the text
CountMatches(keywords, text) ==
    Cardinality({i \in DOMAIN keywords : KeywordIn(keywords[i], text)})

---------------------------------------------------------------------------
(* Impact scorers, in tenths of a point *)

BaseScore      == 50
MaxScore       == 100
BasicHigh      == 30
BasicMedium    == 15
BasicLow       == 5
CriticalWeight == 40
HighWeight     == 25
MediumWeight   == 15
LowWeight      == 5
RecencyBonus   == 10
BrevityPenalty == 5
MinSnippetLen  == 50

high_impact ==
    << <<"acquisition">>, <<"merger">>, <<"lawsuit">>, <<"bankruptcy">>,
       <<"ceo">>, <<"scandal">>, <<"investigation">> >>
medium_impact ==
    << <<"earnings">>, <<"revenue">>, <<"partnership">>, <<"launch">>,
       <<"investment">>, <<"breakthrough">> >>
low_impact ==
    << <<"update">>, <<"comment">>, <<"statement">>, <<"meeting">>,
       <<"interview">> >>

\* a scorer in which the low bucket adds its increment once
_calculate_impact_once(title, snippet) ==
    LET text  == LowerTitle(title \o snippet)
        score == BaseScore
                 + BasicHigh * CountMatches(high_impact, text)
                 + BasicMedium * CountMatches(medium_impact, text)
                 + BasicLow * Min(1, CountMatches(low_impact, text))
    IN  Min(score, MaxScore)

\* BaseCrawler._calculate_impact, crawlers.py:34-55
_calculate_impact(title, snippet) ==
    LET text  == LowerTitle(title \o snippet)
        score == BaseScore
                 + BasicHigh * CountMatches(high_impact, text)
                 + BasicMedium * CountMatches(medium_impact, text)
                 + BasicLow * CountMatches(low_impact, text)
    IN  Min(score, MaxScore)

critical_keywords ==
    << <<"bankruptcy">>, <<"lawsuit">>, <<"investigation">>, <<"scandal">>,
       <<"fraud">>, <<"fired">>, <<"resignation">> >>
high_keywords ==
    << <<"acquisition">>, <<"merger">>, <<"ipo">>, <<"earnings", "beat">>,
       <<"breakthrough">>, <<"partnership">> >>
medium_keywords ==
    << <<"earnings">>, <<"revenue">>, <<"quarterly">>, <<"investment">>,
       <<"expansion">>, <<"launch">> >>
low_keywords ==
    << <<"update">>, <<"statement">>, <<"comment">>, <<"meeting">>,
       <<"interview">> >>

\* a scorer in which a bucket adds its increment once, however many of its
\* keywords occur
_calculate_enhanced_impact_once(title, snippet, query) ==
    LET text == LowerTitle(title \o snippet)
        keyword_score ==
            BaseScore
            + CriticalWeight * Min(1, CountMatches(critical_keywords, text))
            + HighWeight * Min(1, CountMatches(high_keywords, text))
            + MediumWeight * Min(1, CountMatches(medium_keywords, text))
            + LowWeight * Min(1, CountMatches(low_keywords, text))
        with_recency ==
            IF KeywordIn(<<"today">>, query) \/ KeywordIn(<<"latest">>, query)
            THEN keyword_score + RecencyBonus ELSE keyword_score
        base_score ==
            IF StrLen(snippet) < MinSnippetLen
            THEN with_recency - BrevityPenalty ELSE with_recency
    IN  Min(base_score, MaxScore)

\* AdvancedNewsCrawler._calculate_enhanced_impact, crawlers.py:232-267
\* (the query is not lower-cased by the code: crawlers.py:260)
_calculate_enhanced_impact(title, snippet, query) ==
    LET text == LowerTitle(title \o snippet)
        keyword_score ==
            BaseScore
            + CriticalWeight * CountMatches(critical_keywords, text)
            + HighWeight * CountMatches(high_keywords, text)
            + MediumWeight * CountMatches(medium_keywords, text)
            + LowWeight * CountMatches(low_keywords, text)
        with_recency ==
            IF KeywordIn(<<"today">>, query) \/ KeywordIn(<<"latest">>, query)
            THEN keyword_score + RecencyBonus ELSE keyword_score
        base_score ==
            IF StrLen(snippet) < MinSnippetLen
            THEN with_recency - BrevityPenalty ELSE with_recency
    IN  Min(base_score, MaxScore)

---------------------------------------------------------------------------
(* Timestamps.  A timestamp string is [form, wall, off]:                   *)
(*   "naive"   YYYY-MM-DDTHH:00:00        showing the hour `wall`          *)
(*   "aware"   YYYY-MM-DDTHH:00:00+hh:00  showing `wall` at offset `off`   *)
(*   "rfc822"  Www, DD Mon YYYY HH:00:00 GMT (an RSS pubDate)              *)
(*   "empty"   the empty string                                            *)
(*   "absent"  the dict has no 'timestamp' key                             *)

NaiveAt(t)    == [form |-> "naive",  wall |-> t, off |-> 0]
AwareAt(t, o) == [form |-> "aware",  wall |-> t + o, off |-> o]
Rfc822At(t)   == [form |-> "rfc822", wall |-> t, off |-> 0]
EmptyStamp    == [form |-> "empty",  wall |-> 0, off |-> 0]
AbsentStamp   == [form |-> "absent", wall |-> 0, off |-> 0]

\* datetime.fromisoformat(timestamp_str.replace('Z', '+00:00')),
\* pipeline.py:88, :273, :303: the instant is in hours of the local clock
fromisoformat(ts) ==
    CASE ts.form = "naive" -> [ok |-> TRUE, aware |-> FALSE, t |-> ts.wall]
      [] ts.form = "aware" -> [ok |-> TRUE, aware |-> TRUE, t |-> ts.wall - ts.off]
      [] OTHER -> [ok |-> FALSE, aware |-> FALSE, t |-> 0]

\* result.get('timestamp', ''): a missing key reads as the empty string
GetTimestamp(item) ==
    IF item.timestamp.form = "absent" THEN EmptyStamp ELSE item.timestamp

\* "Www" of an RSS pubDate; hour 0 of the model is a Friday
WeekdayName(t) ==
    LET d == (t \div 24) % 7
    IN  CASE d = 0 -> "Fri" [] d = 1 -> "Sat" [] d = 2 -> "Sun" [] d = 3 -> "Mon"
          [] d = 4 -> "Tue" [] d = 5 -> "Wed" [] OTHER -> "Thu"

\* alphabetical rank of the weekday names
WeekdayRank(name) ==
    CASE name = "Fri" -> 0 [] name = "Mon" -> 1 [] name = "Sat" -> 2
      [] name = "Sun" -> 3 [] name = "Thu" -> 4 [] name = "Tue" -> 5
      [] OTHER -> 6

\* A tuple of integers that orders the timestamp strings as Python orders
\* str: the empty string first, then the strings that start with a digit
\* (by the date and hour shown, a string before its extensions, then by the
\* offset), then those that start with a letter (by weekday name, then,
\* within the same week, by the hour).
StrKey(ts) ==
    CASE ts.form = "empty"  -> <<0, 0, 0, 0>>
      [] ts.form = "naive"  -> <<1, ts.wall, 0, 0>>
      [] ts.form = "aware"  -> <<1, ts.wall, 1, ts.off>>
      [] OTHER              -> <<2, WeekdayRank(WeekdayName(ts.wall)), ts.wall, 0>>

\* a < b on tuples of integers of the same length
RECURSIVE TupleLess(_, _)
TupleLess(a, b) ==
    IF a = <<>> THEN FALSE
    ELSE IF Head(a) # Head(b) THEN Head(a) < Head(b)
    ELSE TupleLess(Tail(a), Tail(b))

---------------------------------------------------------------------------
(* NewsAggregator._deduplicate, pipeline.py:61-77 *)

RECURSIVE DeduplicateLoop(_, _, _, _)
DeduplicateLoop(results, seen_urls, seen_titles, unique_results) ==
    IF results = <<>> THEN unique_results
    ELSE LET result == Head(results)
             url    == result.url
             title  == LowerTitle(result.title)
         IN  IF url \notin seen_urls /\ title \notin seen_titles
             THEN DeduplicateLoop(Tail(results), seen_urls \cup {url},
                                  seen_titles \cup {title},
                                  Append(unique_results, result))
             ELSE DeduplicateLoop(Tail(results), seen_urls, seen_titles,
                                  unique_results)

\* a de-duplicator that forgets the URLs it has seen
RECURSIVE DeduplicateLoopNoUrl(_, _, _, _)
DeduplicateLoopNoUrl(results, seen_urls, seen_titles, unique_results) ==
    IF results = <<>> THEN unique_results
    ELSE LET result == Head(results)
             title  == LowerTitle(result.title)
         IN  IF title \notin seen_titles
             THEN DeduplicateLoopNoUrl(Tail(results), seen_urls,
                                       seen_titles \cup {title},
                                       Append(unique_results, result))
             ELSE DeduplicateLoopNoUrl(Tail(results), seen_urls, seen_titles,
                                       unique_results)

_deduplicate_no_url(results) == DeduplicateLoopNoUrl(results, {}, {}, <<>>)

Reversed(seq) == [i \in DOMAIN seq |-> seq[Len(seq) + 1 - i]]

\* a de-duplicator in which the item seen last wins
_deduplicate_last_seen(results) ==
    Reversed(DeduplicateLoop(Reversed(results), {}, {}, <<>>))

_deduplicate(results) == DeduplicateLoop(results, {}, {}, <<>>)

---------------------------------------------------------------------------
(* AdvancedNewsCrawler._advanced_deduplication, crawlers.py:286-316 *)

\* crawlers.py:307, the ratio compared with 0.7; the division raises
\* ZeroDivisionError when both titles have no word
SimilarityDenominator(title, seen_title) ==
    Max(Len(Split(title)), Len(Split(seen_title)))

IsSimilarTo(title, seen_title) ==
    10 * Cardinality(ToSet(Split(title)) \cap ToSet(Split(seen_title)))
        > 7 * SimilarityDenominator(title, seen_title)

\* The loop over seen_titles stops at the first similar title and raises at
\* the first pair without words. A title without words is similar to no
\* title with words, and a title with words never divides by zero, so the
\* outcome does not depend on the iteration order of the set.
RECURSIVE AdvancedLoop(_, _, _, _)
AdvancedLoop(results, seen_urls, seen_titles, unique_results) ==
    IF results = <<>> THEN [raised |-> FALSE, value |-> unique_results]
    ELSE LET result == Head(results)
             url    == result.url
             title  == LowerTitle(result.title)
         IN  IF url \in seen_urls
             THEN AdvancedLoop(Tail(results), seen_urls, seen_titles,
                               unique_results)
             ELSE IF \E s \in seen_titles : SimilarityDenominator(title, s) = 0
             THEN [raised |-> TRUE, value |-> <<>>]
             ELSE IF \E s \in seen_titles : IsSimilarTo(title, s)
             THEN AdvancedLoop(Tail(results), seen_urls, seen_titles,
                               unique_results)
             ELSE AdvancedLoop(Tail(results), seen_urls \cup {url},
                               seen_titles \cup {title},
                               Append(unique_results, result))

_advanced_deduplication(results) ==
    IF results = <<>> THEN [raised |-> FALSE, value |-> <<>>]
    ELSE AdvancedLoop(results, {}, {}, <<>>)

---------------------------------------------------------------------------
(* Time filter, enterprise filter and ranking, pipeline.py *)

TopBasic      == 10
TopEnterprise == 12
TrustedBoost  == 10
FreshBoost    == 5
MinTitleLen   == 10
FreshHours    == 1
DefaultHours  == 24

\* process_news_query, pipeline.py:117-118
time_mapping_basic(time_range) ==
    CASE time_range = "1 hour" -> 1
      [] time_range = "6 hours" -> 6
      [] time_range = "24 hours" -> 24
      [] OTHER -> DefaultHours

\* _enterprise_filter_news, pipeline.py:257-258
time_mapping(time_range) ==
    CASE time_range = "1 hour" -> 1
      [] time_range = "6 hours" -> 6
      [] time_range = "24 hours" -> 24
      [] time_range = "1 week" -> 168
      [] OTHER -> DefaultHours

\* whether the strict variant of the comparison of pipeline.py:92 keeps it
KeepsByTimeStrict(result, cutoff_time, now) ==
    LET ts == GetTimestamp(result)
    IN  IF ts.form = "empty" THEN TRUE
        ELSE LET p == fromisoformat(ts)
             IN  IF p.ok /\ p.aware THEN TRUE
                 ELSE (IF p.ok THEN p.t ELSE now) > cutoff_time

\* NewsAggregator._filter_by_time, pipeline.py:83-97, for one result.
\* A string that does not parse is replaced by datetime.now() (line 90); an
\* offset-aware datetime compared with the naive cutoff raises TypeError,
\* which the outer except turns into "include" (lines 96-97).
KeepsByTime(result, cutoff_time, now) ==
    LET ts == GetTimestamp(result)
    IN  IF ts.form = "empty" THEN TRUE
        ELSE LET p == fromisoformat(ts)
             IN  IF p.ok /\ p.aware THEN TRUE
                 ELSE (IF p.ok THEN p.t ELSE now) >= cutoff_time

\* NewsAggregator._filter_by_time, pipeline.py:79-99
_filter_by_time(results, cutoff_time, now) ==
    SelectSeq(results, LAMBDA result : KeepsByTime(result, cutoff_time, now))

\* str.lower() on the sources of the model
LowerSource(source) ==
    CASE source = "DuckDuckGo" -> "duckduckgo"
      [] source = "DuckDuckGo-Enhanced" -> "duckduckgo-enhanced"
      [] source = "RSS-Reuters Business" -> "rss-reuters business"
      [] source = "RSS-Snapchat News" -> "rss-snapchat news"
      [] source = "RSS-Unknown" -> "rss-unknown"
      [] source = "Reuters" -> "reuters"
      [] source = "Unknown Blog" -> "unknown blog"
      [] source = "Unknown Source" -> "unknown source"
      [] OTHER -> source

\* url.startswith('http')
StartsWithHttp(url) == Len(url) >= 4 /\ SubSeq(url, 1, 4) = "http"

\* the time step of _enterprise_filter_news, pipeline.py:270-277: TRUE when
\* the item is not skipped. The comparison of an offset-aware datetime with
\* the naive cutoff raises inside the try, and the except passes.
EnterpriseTimeOk(item, cutoff_time) ==
    LET ts == GetTimestamp(item)
    IN  IF ts.form = "empty" THEN TRUE
        ELSE LET p == fromisoformat(ts)
             IN  IF ~p.ok \/ p.aware THEN TRUE
                 ELSE ~(p.t < cutoff_time)

\* the loop body of _enterprise_filter_news, pipeline.py:263-292
PassesEnterpriseFilters(item, impact_threshold, cutoff_time) ==
    /\ ~(item.impact_score < impact_threshold)
    /\ EnterpriseTimeOk(item, cutoff_time)
    /\ ~(StrLen(item.title) < MinTitleLen
         \/ KeywordIn(<<"error">>, LowerTitle(item.title)))
    /\ ~(item.url = "" \/ ~StartsWithHttp(item.url))

trusted_sources == <<"reuters", "bloomberg", "cnbc", "ap", "wsj">>

\* a credibility boost that is not capped
CredibilityBoostUncapped(item) ==
    IF \E i \in DOMAIN trusted_sources :
           WordHas(LowerSource(item.source), trusted_sources[i])
    THEN [item EXCEPT !.impact_score = @ + TrustedBoost]
    ELSE item

\* a credibility boost for a source that is a trusted name, not one that
\* contains it
CredibilityBoostWholeName(item) ==
    IF \E i \in DOMAIN trusted_sources :
           LowerSource(item.source) = trusted_sources[i]
    THEN [item EXCEPT !.impact_score = Min(@ + TrustedBoost, MaxScore)]
    ELSE item

\* pipeline.py:297-299
CredibilityBoost(item) ==
    IF \E i \in DOMAIN trusted_sources :
           WordHas(LowerSource(item.source), trusted_sources[i])
    THEN [item EXCEPT !.impact_score = Min(@ + TrustedBoost, MaxScore)]
    ELSE item

\* a freshness boost given to every item whose timestamp parses, whatever
\* its age
RecencyBoostAnyAge(item, now) ==
    IF fromisoformat(item.timestamp).ok
    THEN [item EXCEPT !.impact_score = Min(@ + FreshBoost, MaxScore)]
    ELSE item

\* pipeline.py:302-308: item['timestamp'] raises KeyError when the key is
\* missing and fromisoformat raises on a string it cannot parse; both are
\* passed over
RecencyBoost(item, now) ==
    LET p == fromisoformat(item.timestamp)
    IN  IF p.ok /\ now - p.t < FreshHours
        THEN [item EXCEPT !.impact_score = Min(@ + FreshBoost, MaxScore)]
        ELSE item

ScoreLess(a, b) == a.impact_score < b.impact_score

\* the key of pipeline.py:56, (x['impact_score'], x['timestamp'])
ScoreThenStampLess(a, b) ==
    \/ a.impact_score < b.impact_score
    \/ /\ a.impact_score = b.impact_score
       /\ TupleLess(StrKey(a.timestamp), StrKey(b.timestamp))

\* the comparison of two items under the sort key named key
KeyLess(key, a, b) ==
    IF key = "impact_score" THEN ScoreLess(a, b) ELSE ScoreThenStampLess(a, b)

\* a list left in the order it came in
Unsorted(seq, key) == seq

\* sorted(seq, key=..., reverse=True): the sort is stable, so an element
\* comes after the elements with a greater key and after the earlier
\* elements with an equal key
SortedDesc(seq, key) ==
    LET Before(i) ==
            {j \in DOMAIN seq :
                \/ KeyLess(key, seq[i], seq[j])
                \/ (~KeyLess(key, seq[j], seq[i]) /\ j < i)}
    IN  [k \in DOMAIN seq |->
            seq[CHOOSE i \in DOMAIN seq : Cardinality(Before(i)) = k - 1]]

\* seq[:n]
Take(seq, n) == SubSeq(seq, 1, Min(n, Len(seq)))

\* _enterprise_filter_news, pipeline.py:253-311
_enterprise_filter_news(news_items, impact_threshold, time_range, now) ==
    LET hours       == time_mapping(time_range)
        cutoff_time == now - hours
        filtered    == SelectSeq(news_items,
                          LAMBDA item : PassesEnterpriseFilters(item, impact_threshold,
                                                                cutoff_time))
        boosted     == [i \in DOMAIN filtered |->
                          RecencyBoost(CredibilityBoost(filtered[i]), now)]
    IN  Take(SortedDesc(boosted, "impact_score"), TopEnterprise)

\* a ranking that cuts the list to ten before it sorts it
RankAllCutFirst(all_results, time_range_hours, now) ==
    LET unique_results   == _deduplicate(all_results)
        cutoff_time      == now - time_range_hours
        filtered_results == _filter_by_time(unique_results, cutoff_time, now)
    IN  IF \E i \in DOMAIN filtered_results :
               filtered_results[i].timestamp.form = "absent"
        THEN [raised |-> TRUE, value |-> <<>>]
        ELSE [raised |-> FALSE,
              value |-> SortedDesc(Take(filtered_results, TopBasic),
                                   "impact_score_timestamp")]

\* NewsAggregator.fetch_all_news after the gather, pipeline.py:47-59.
\* x['timestamp'] raises KeyError for an item without the key.
RankAll(all_results, time_range_hours, now) ==
    LET unique_results   == _deduplicate(all_results)
        cutoff_time      == now - time_range_hours
        filtered_results == _filter_by_time(unique_results, cutoff_time, now)
    IN  IF \E i \in DOMAIN filtered_results :
               filtered_results[i].timestamp.form = "absent"
        THEN [raised |-> TRUE, value |-> <<>>]
        ELSE [raised |-> FALSE,
              value |-> Take(SortedDesc(filtered_results, "impact_score_timestamp"),
                             TopBasic)]

---------------------------------------------------------------------------
(* De-duplication harness: every list of up to MaxDedup scraped items is   *)
(* handed to each de-duplicator.                                           *)

TitleTexas      == <<"Tesla", "announces", "new", "factory", "in", "Texas">>
TitleTexasToday == <<"Tesla", "announces", "new", "factory", "in", "Texas", "today">>
TitleTexasLower == <<"tesla", "announces", "new", "factory", "in", "texas">>
TitleLawsuit    == <<"Tesla", "lawsuit", "update">>
TitleEmpty      == <<>>

TitleRepeated   == <<"Tesla", "lawsuit", "update", "Tesla", "update">>

DedupTitles ==
    {TitleTexas, TitleTexasToday, TitleTexasLower, TitleLawsuit, TitleRepeated,
     TitleEmpty}
DedupUrls   == {"https://a.com/1", "https://A.com/1", "https://a.com/2"}

\* the dict built by DuckDuckGoCrawler.fetch, crawlers.py:78-84
DuckDuckGoItem(i, title, url, t) ==
    [id |-> i, title |-> title, url |-> url, source |-> "DuckDuckGo",
     timestamp |-> NaiveAt(t), impact_score |-> _calculate_impact(title, <<>>)]

\* the dict built by RSSCrawler.fetch, crawlers.py:119-126; `published` is
\* the feed's string, or AbsentStamp when the entry has none
RSSItem(i, title, url, source, published, t) ==
    [id |-> i, title |-> title, url |-> url, source |-> source,
     timestamp |-> IF published = AbsentStamp THEN NaiveAt(t) ELSE published,
     impact_score |-> _calculate_impact(title, <<>>)]

\* the dict built by enhanced_duckduckgo_scrape, crawlers.py:206-215
EnhancedItem(i, title, url, snippet, query, t) ==
    [id |-> i, title |-> title, url |-> url, source |-> "DuckDuckGo-Enhanced",
     timestamp |-> NaiveAt(t),
     impact_score |-> _calculate_enhanced_impact(title, snippet, query)]

\* f'"{company}"'
Quoted(company) == "\"" \o company \o "\""

\* the search variations of crawlers.py:159-167
search_queries(company) ==
    << <<Quoted(company), "news", "today">>,
       <<company, "earnings", "latest">>,
       <<company, "stock", "news">>,
       <<company, "press", "release">>,
       <<company, "acquisition", "merger">>,
       <<company, "CEO", "announcement">>,
       <<company, "financial", "results">> >>

QueryToday  == search_queries("Tesla")[1]
QueryStock  == search_queries("Tesla")[3]

ScrapedItem(i, title, url) == EnhancedItem(i, title, url, <<>>, QueryStock, 0)

\* config.crawler.rss_feeds as config.py:48-54 builds it (the entry of one
\* company; the others are alike)
ConfiguredFeeds == [tesla |-> <<"https://www.tesla.com/blog/rss">>]

NoFrame   == [task |-> 0]
NoSession == [last_company |-> "none"]
Sessions  == {"default", "user-1"}

\* no query has been made: the state after NewsPipeline.__init__ and
\* EnterpriseNewsPipeline.__init__, pipeline.py:105-110 and :150-154
QueryIdle ==
    /\ pc = "idle" /\ qFlow = "none" /\ qCompany = "none"
    /\ qRange = "24 hours" /\ qThr = 0 /\ qSession = "default"
    /\ tasks = <<>> /\ frame = NoFrame
    /\ rss_feeds = ConfiguredFeeds
    /\ ranked = <<>> /\ summarized = <<>> /\ outcome = "none"
    /\ session_data = [s \in Sessions |-> NoSession]

Threads == 1..2
NoArgs  == [company |-> "none"]
NoOut   == [outcome |-> "none"]

\* no UI thread serves a request
ThreadIdle ==
    /\ pool = {}
    /\ tPc = [t \in Threads |-> "idle"]
    /\ tArgs = [t \in Threads |-> NoArgs]
    /\ tNews = [t \in Threads |-> <<>>]
    /\ tFeeds = [t \in Threads |-> <<>>]
    /\ tOut = [t \in Threads |-> NoOut]
    /\ nQueries = 0
    /\ recent = [s \in Sessions |-> NoSession]

\* the other harnesses are idle
FilterIdle ==
    /\ fIn = <<>> /\ fRange = "24 hours" /\ fThr = 0 /\ fFn = "none"
    /\ fRuns = 0 /\ fOut = [raised |-> FALSE, value |-> <<>>]

NoItem == [id |-> 0]

\* no scorer called yet
NoCall == [title |-> <<>>, snippet |-> <<>>, query |-> <<>>]

ScoreIdle == sItem = NoItem /\ sFn = "none" /\ sCall = NoCall

DedupIdle ==
    dIn = <<>> /\ dFn = "none" /\ dOut = [raised |-> FALSE, value |-> <<>>]

DedupInputs ==
    UNION {[1..n -> DedupTitles \X DedupUrls] : n \in 0..MaxDedup}

DedupInit ==
    /\ \E f \in DedupInputs :
          dIn = [i \in DOMAIN f |-> ScrapedItem(i, f[i][1], f[i][2])]
    /\ dFn = "none"
    /\ dOut = [raised |-> FALSE, value |-> <<>>]
    /\ clock = 0
    /\ FilterIdle
    /\ ScoreIdle
    /\ QueryIdle
    /\ ThreadIdle

CallDeduplicate ==
    /\ dFn = "none"
    /\ dFn' = "_deduplicate"
    /\ dOut' = [raised |-> FALSE, value |-> _deduplicate(dIn)]
    /\ UNCHANGED <<dIn, clock, filterVars, scoreVars, queryVars,
                   threadVars>>

CallAdvancedDeduplication ==
    /\ dFn = "none"
    /\ dFn' = "_advanced_deduplication"
    /\ dOut' = _advanced_deduplication(dIn)
    /\ UNCHANGED <<dIn, clock, filterVars, scoreVars, queryVars,
                   threadVars>>

DedupNext == CallDeduplicate \/ CallAdvancedDeduplication

SpecDedup == DedupInit /\ [][DedupNext]_vars

---------------------------------------------------------------------------
(* Claims about the de-duplicators *)

\* str.lower() on the URLs of the model
LowerUrl(u) == IF u = "https://A.com/1" THEN "https://a.com/1" ELSE u

KeptIds(out) == {out[i].id : i \in DOMAIN out}

DedupReturned == dFn # "none" /\ ~dOut.raised

\* the two titles are duplicates of each other for the de-duplicator that ran
TitleDuplicates(a, b) ==
    IF dFn = "_deduplicate"
    THEN LowerTitle(a.title) = LowerTitle(b.title)
    ELSE \/ SimilarityDenominator(LowerTitle(a.title), LowerTitle(b.title)) = 0
         \/ IsSimilarTo(LowerTitle(a.title), LowerTitle(b.title))

SimilarityAboveThreshold(t1, t2) ==
    LET A == ToSet(Split(LowerTitle(t1)))
        B == ToSet(Split(LowerTitle(t2)))
        m == Max(Cardinality(A), Cardinality(B))
    IN  m > 0 /\ 10 * Cardinality(A \cap B) > 7 * m

\* C6 as stated: in the output of the aggregator's de-duplicator no two
\* items have a title similarity above 0.7.
C6_NoSimilarTitlesKept ==
    dFn = "_deduplicate" =>
        \A i, j \in DOMAIN dOut.value :
            i < j => ~SimilarityAboveThreshold(dOut.value[i].title,
                                               dOut.value[j].title)

\* C27: the list a de-duplicator returns is a subsequence of its input (the
\* items as they were, in their order), begins with the first input item,
\* and every item it dropped comes after a kept item with the same URL or a
\* duplicate title (for _deduplicate the same lower-cased title, for
\* _advanced_deduplication a title it finds similar).
C27_FirstSeenWins ==
    DedupReturned =>
        /\ \A k \in DOMAIN dOut.value :
              /\ dOut.value[k].id \in DOMAIN dIn
              /\ dOut.value[k] = dIn[dOut.value[k].id]
        /\ \A k, l \in DOMAIN dOut.value :
              k < l => dOut.value[k].id < dOut.value[l].id
        /\ dIn # <<>> => (dOut.value # <<>> /\ dOut.value[1] = dIn[1])
        /\ \A j \in DOMAIN dIn :
              j \notin KeptIds(dOut.value) =>
                  \E i \in 1..(j - 1) :
                      /\ i \in KeptIds(dOut.value)
                      /\ \/ dIn[i].url = dIn[j].url
                         \/ TitleDuplicates(dIn[i], dIn[j])

\* C27 witness: _advanced_deduplication got three items with different
\* URLs, dropped the second for its title, similar to the first one's, and
\* kept the third.
C27_Witness ==
    /\ dFn = "_advanced_deduplication"
    /\ ~dOut.raised
    /\ Len(dIn) = 3
    /\ dIn[1].title = TitleTexas
    /\ dIn[2].title = TitleTexasToday
    /\ dIn[1].url # dIn[2].url
    /\ KeptIds(dOut.value) = {1, 3}

\* C29 as stated: _advanced_deduplication returns a list for every list of
\* scraped items, also when two or more of them have an empty or
\* whitespace-only title; it never raises.
C29_AdvancedDeduplicationTotal ==
    dFn = "_advanced_deduplication" => ~dOut.raised

\* C23 as stated: the similarity the de-duplicator compares with 0.7 is
\* |A \cap B| / max(|A|, |B|) over the sets of lower-cased words, also for
\* titles that repeat a word: of two items with different URLs,
\* _advanced_deduplication keeps the second exactly when that ratio is not
\* above 0.7.
C23_SimilarityOverWordSets ==
    ( /\ dFn = "_advanced_deduplication"
      /\ ~dOut.raised
      /\ Len(dIn) = 2
      /\ dIn[1].url # dIn[2].url )
    => ( 2 \in KeptIds(dOut.value)
         <=> ~SimilarityAboveThreshold(dIn[1].title, dIn[2].title) )

---------------------------------------------------------------------------
(* Filter harness: every list of up to MaxList items that the adapters or  *)
(* the tests build is handed to the time filter, to the ranking of          *)
(* fetch_all_news and to _enterprise_filter_news (which may run again on    *)
(* its own result).                                                        *)

TitleAcquisition == <<"Tesla", "announces", "major", "acquisition">>
TitleSuit        == <<"Tesla", "faces", "new", "lawsuit">>
TitleMeeting     == <<"Tesla", "provides", "update", "on", "meeting">>
TitleShort       == <<"Tesla", "up">>
TitleFixtureHigh == <<"High", "Impact", "News">>
TitleFixtureLow  == <<"Low", "Impact", "News">>
TitleError       == <<"Tesla", "fixes", "error", "in", "filing">>

TimeRanges == {"1 hour", "6 hours", "24 hours", "1 week", "1 month"}
Thresholds == {50, 70}

\* the published strings of a feed, around the cutoff of a window of h hours
Stamps(h) ==
    {NaiveAt(0), NaiveAt(0 - h), NaiveAt(0 - h - 1), AwareAt(0, 0),
     AwareAt(0 - h - 1, 0), Rfc822At(0 - 30), EmptyStamp}

\* the dicts of tests/test_pipeline.py:138-153, and variants of them
FixtureItem(title, url, source, impact_score, timestamp) ==
    [id |-> 0, title |-> title, url |-> url, source |-> source,
     timestamp |-> timestamp, impact_score |-> impact_score]

\* the items a list is made of; "?" stands for the item's own URL
FilterItems(h) ==
    {RSSItem(0, title, "?", "RSS-Unknown", st, 0) :
        title \in {TitleAcquisition, TitleSuit, TitleMeeting}, st \in Stamps(h)}
    \cup {RSSItem(0, title, "?", "RSS-Reuters Business", st, 0) :
        title \in {TitleAcquisition, TitleMeeting}, st \in {NaiveAt(0), NaiveAt(0 - h)}}
    \cup {DuckDuckGoItem(0, TitleMeeting, "?", 0),
          RSSItem(0, TitleAcquisition, "?", "RSS-Snapchat News", NaiveAt(0), 0),
          RSSItem(0, TitleError, "?", "RSS-Unknown", NaiveAt(0), 0),
          EnhancedItem(0, TitleAcquisition, "?", <<>>, QueryToday, 0),
          FixtureItem(TitleFixtureHigh, "?", "Reuters", 80, AbsentStamp),
          FixtureItem(TitleFixtureLow, "?", "Unknown Blog", 30, NaiveAt(0)),
          FixtureItem(TitleShort, "?", "Reuters", 80, NaiveAt(0)),
          FixtureItem(TitleFixtureHigh, "//duckduckgo.com/l/?uddg=x", "Reuters",
                      80, NaiveAt(0))}

OwnUrl(i) ==
    CASE i = 1 -> "https://a.com/1"
      [] i = 2 -> "https://a.com/2"
      [] OTHER -> "http://b.com/3"

Placed(item, i) ==
    [item EXCEPT !.id = i, !.url = IF @ = "?" THEN OwnUrl(i) ELSE @]

FilterInit ==
    /\ clock = 0
    /\ fRange \in TimeRanges
    /\ \E n \in 0..MaxList :
          \E f \in [1..n -> FilterItems(time_mapping(fRange))] :
              fIn = [i \in 1..n |-> Placed(f[i], i)]
    /\ fThr = 0
    /\ fFn = "none"
    /\ fRuns = 0
    /\ fOut = [raised |-> FALSE, value |-> <<>>]
    /\ DedupIdle
    /\ ScoreIdle
    /\ QueryIdle
    /\ ThreadIdle

\* the window of the harness, in hours
fHours == time_mapping(fRange)

CallFilterByTime ==
    /\ fFn = "none"
    /\ fFn' = "_filter_by_time"
    /\ fRuns' = 1
    /\ fOut' = [raised |-> FALSE,
                value |-> _filter_by_time(fIn, clock - fHours, clock)]
    /\ UNCHANGED <<clock, fIn, fRange, fThr, dedupVars, scoreVars, queryVars,
                   threadVars>>

CallRankAll ==
    /\ fFn = "none"
    /\ fFn' = "fetch_all_news"
    /\ fRuns' = 1
    /\ fOut' = RankAll(fIn, fHours, clock)
    /\ UNCHANGED <<clock, fIn, fRange, fThr, dedupVars, scoreVars, queryVars,
                   threadVars>>

CallEnterpriseFilterAt(thresholds) ==
    /\ fFn = "none"
    /\ \E impact_threshold \in thresholds :
          /\ fThr' = impact_threshold
          /\ fOut' = [raised |-> FALSE,
                      value |-> _enterprise_filter_news(fIn, impact_threshold,
                                                        fRange, clock)]
    /\ fFn' = "_enterprise_filter_news"
    /\ fRuns' = 1
    /\ UNCHANGED <<clock, fIn, fRange, dedupVars, scoreVars, queryVars,
                   threadVars>>

CallEnterpriseFilter == CallEnterpriseFilterAt(Thresholds)

\* _enterprise_filter_news on the list it returned
CallEnterpriseFilterAgain ==
    /\ fFn = "_enterprise_filter_news"
    /\ fRuns < MaxRuns
    /\ fRuns' = fRuns + 1
    /\ fOut' = [raised |-> FALSE,
                value |-> _enterprise_filter_news(fOut.value, fThr, fRange, clock)]
    /\ UNCHANGED <<clock, fIn, fRange, fThr, fFn, dedupVars, scoreVars, queryVars,
                   threadVars>>

FilterNext ==
    \/ CallFilterByTime
    \/ CallRankAll
    \/ CallEnterpriseFilter
    \/ CallEnterpriseFilterAgain

SpecFilter == FilterInit /\ [][FilterNext]_vars

---------------------------------------------------------------------------
(* Claims about the time filter and the ranking *)

FilterReturned == fFn # "none" /\ ~fOut.raised

\* the instant of a timestamp that parses is strictly before the cutoff
OlderThanCutoff(item, cutoff_time) ==
    LET p == fromisoformat(item.timestamp)
    IN  p.ok /\ p.t < cutoff_time

\* C8 as stated: no item whose parseable timestamp, naive or with an
\* offset, is strictly older than the cutoff is in the result of the time
\* filter (_filter_by_time, fetch_all_news, _enterprise_filter_news).
C8_NoItemOlderThanCutoff ==
    FilterReturned =>
        \A i \in DOMAIN fOut.value :
            ~OlderThanCutoff(fOut.value[i], clock - fHours)

AtCutoff(item, cutoff_time) ==
    LET p == fromisoformat(item.timestamp)
    IN  p.ok /\ p.t = cutoff_time

UnknownAge(item) == item.timestamp.form \in {"absent", "empty", "rfc822"}

\* the criteria of the enterprise filter other than the time
OtherCriteriaMet(item, impact_threshold) ==
    /\ item.impact_score >= impact_threshold
    /\ StrLen(item.title) >= 10
    /\ \A i \in DOMAIN item.title : LowerWord(item.title[i]) # "error"
    /\ item.url \in {"https://a.com/1", "https://a.com/2", "http://b.com/3"}

\* C9: an item timestamped exactly at the cutoff, and an item whose
\* timestamp is absent, empty or unparseable, is retained by
\* _filter_by_time, and by _enterprise_filter_news when it meets the other
\* criteria, for every window (1, 6, 24, 168 hours).
C9_BoundaryAndUnknownAgeKept ==
    /\ fFn = "_filter_by_time" =>
          \A i \in DOMAIN fIn :
              (AtCutoff(fIn[i], clock - fHours) \/ UnknownAge(fIn[i]))
              => fIn[i].id \in KeptIds(fOut.value)
    /\ (fFn = "_enterprise_filter_news" /\ fRuns = 1) =>
          \A i \in DOMAIN fIn :
              ( /\ AtCutoff(fIn[i], clock - fHours) \/ UnknownAge(fIn[i])
                /\ OtherCriteriaMet(fIn[i], fThr) )
              => fIn[i].id \in KeptIds(fOut.value)

\* C9 witness: with the window of one week, _filter_by_time kept an item
\* timestamped exactly 168 hours ago and an item with an unparseable
\* timestamp.
C9_Witness ==
    /\ fFn = "_filter_by_time"
    /\ fHours = 168
    /\ \E i \in DOMAIN fIn :
          /\ fIn[i].timestamp = NaiveAt(clock - 168)
          /\ fIn[i].id \in KeptIds(fOut.value)
    /\ \E i \in DOMAIN fIn :
          /\ fIn[i].timestamp.form = "rfc822"
          /\ fIn[i].id \in KeptIds(fOut.value)

\* a's timestamp is later than b's; one that does not parse is the oldest
LaterThan(a, b) ==
    LET pa == fromisoformat(a.timestamp)
        pb == fromisoformat(b.timestamp)
    IN  pa.ok /\ (~pb.ok \/ pa.t > pb.t)

\* C10 as stated: the returned list (fetch_all_news, _enterprise_filter_news)
\* is sorted by impact score descending, and among items of equal score the
\* one with the later timestamp comes first, an unparseable timestamp being
\* the oldest.
C10_RankedByScoreThenRecency ==
    (fFn \in {"fetch_all_news", "_enterprise_filter_news"} /\ ~fOut.raised) =>
        \A i, j \in DOMAIN fOut.value :
            i < j =>
                /\ fOut.value[i].impact_score >= fOut.value[j].impact_score
                /\ fOut.value[i].impact_score = fOut.value[j].impact_score
                      => ~LaterThan(fOut.value[j], fOut.value[i])

---------------------------------------------------------------------------
(* Scoring harness: an adapter builds an item from any title of up to      *)
(* MaxWords words, and _enterprise_filter_news boosts it any number of     *)
(* times.                                                                  *)

ScoreWords ==
    {"Tesla", "lawsuit", "fraud", "acquisition", "earnings", "beat", "Update",
     "launches"}

ScoreTitles == UNION {[1..n -> ScoreWords] : n \in 0..MaxWords}

SnippetLong ==
    <<"Shares", "of", "the", "electric", "carmaker", "rose", "after",
      "quarterly", "revenue", "report">>

QueryLatest == search_queries("Tesla")[2]

\* a snippet of 49 characters and one of 50
SnippetShort ==
    <<"Tesla", "shares", "rose", "sharply", "after", "earnings", "beat", "now">>
SnippetFifty ==
    <<"Tesla", "shares", "rose", "sharply", "after", "earnings", "beat", "then">>

ScoreSnippets == {<<>>, SnippetShort, SnippetFifty, SnippetLong}

\* search variations of "Tesla" and of a company named "USA Today"
ScoreQueries ==
    {QueryToday, QueryStock, QueryLatest, search_queries("USA Today")[3]}

ScoreInit ==
    /\ clock = 0
    /\ sItem = NoItem
    /\ sFn = "none"
    /\ sCall = NoCall
    /\ DedupIdle
    /\ FilterIdle
    /\ QueryIdle
    /\ ThreadIdle

FetchDuckDuckGo(titles) ==
    /\ sItem = NoItem
    /\ \E title \in titles :
          /\ sItem' = DuckDuckGoItem(1, title, OwnUrl(1), clock)
          /\ sCall' = [title |-> title, snippet |-> <<>>, query |-> <<>>]
    /\ sFn' = "DuckDuckGoCrawler.fetch"
    /\ UNCHANGED <<clock, dedupVars, filterVars, queryVars,
                   threadVars>>

FetchDuckDuckGoItem == FetchDuckDuckGo(ScoreTitles)

\* the titles of tests/test_pipeline.py:184 and :189, and every title of up
\* to MaxBasicWords of their words and of the low-impact keywords
TitleAcquisitionDeal == <<"Tesla", "announces", "major", "acquisition", "deal">>

BasicWords ==
    {"Tesla", "provides", "acquisition", "update", "comment", "statement",
     "meeting", "interview"}

BasicTitles ==
    UNION {[1..n -> BasicWords] : n \in 0..MaxBasicWords}
    \cup {TitleAcquisitionDeal, TitleMeeting}

FetchAnyTitle == FetchDuckDuckGo(BasicTitles)

SpecBasicScore == ScoreInit /\ [][FetchAnyTitle]_vars

FetchRSSItem ==
    /\ sItem = NoItem
    /\ \E title \in ScoreTitles :
       \E source \in {"RSS-Reuters Business", "RSS-Snapchat News", "RSS-Unknown"} :
       \E published \in {AbsentStamp, Rfc822At(clock - 30)} :
          /\ sItem' = RSSItem(1, title, OwnUrl(1), source, published, clock)
          /\ sCall' = [title |-> title, snippet |-> <<>>, query |-> <<>>]
    /\ sFn' = "RSSCrawler.fetch"
    /\ UNCHANGED <<clock, dedupVars, filterVars, queryVars,
                   threadVars>>

ScrapeEnhanced(snippets, queries) ==
    /\ sItem = NoItem
    /\ \E title \in ScoreTitles :
       \E snippet \in snippets :
       \E query \in queries :
          /\ sItem' = EnhancedItem(1, title, OwnUrl(1), snippet, query, clock)
          /\ sCall' = [title |-> title, snippet |-> snippet, query |-> query]
    /\ sFn' = "enhanced_duckduckgo_scrape"
    /\ UNCHANGED <<clock, dedupVars, filterVars, queryVars,
                   threadVars>>

ScrapeEnhancedItem ==
    ScrapeEnhanced({<<>>, SnippetLong}, {QueryToday, QueryStock, QueryLatest})

\* the scorer called for a result block with any snippet and query
ScrapeAnyBlock == ScrapeEnhanced(ScoreSnippets, ScoreQueries)

\* _calculate_enhanced_impact called again with the arguments of the item
ScoreAgain ==
    /\ sFn = "enhanced_duckduckgo_scrape"
    /\ sItem' = [sItem EXCEPT !.impact_score =
                    _calculate_enhanced_impact(sCall.title, sCall.snippet,
                                               sCall.query)]
    /\ sFn' = "_calculate_enhanced_impact"
    /\ UNCHANGED <<sCall, clock, dedupVars, filterVars, queryVars,
                   threadVars>>

\* _enterprise_filter_news on the item, or on the item it returned before
FilterItem ==
    /\ sItem # NoItem
    /\ \E impact_threshold \in Thresholds :
       \E time_range \in TimeRanges :
          LET out == _enterprise_filter_news(<<sItem>>, impact_threshold,
                                             time_range, clock)
          IN  out # <<>> /\ sItem' = out[1]
    /\ sFn' = "_enterprise_filter_news"
    /\ UNCHANGED <<sCall, clock, dedupVars, filterVars, queryVars,
                   threadVars>>

ScoreNext ==
    \/ FetchDuckDuckGoItem
    \/ FetchRSSItem
    \/ ScrapeEnhancedItem
    \/ FilterItem

SpecScore == ScoreInit /\ [][ScoreNext]_vars

EnhancedNext ==
    \/ ScrapeAnyBlock
    \/ ScoreAgain

SpecEnhanced == ScoreInit /\ [][EnhancedNext]_vars

\* C1: the impact score of every item lies in [0, 10] (0..100 tenths), as
\* the scorers return it and after any number of runs of the ranking-time
\* boosts.
C1_ScoreInRange ==
    sItem # NoItem => (sItem.impact_score >= 0 /\ sItem.impact_score <= 100)

\* the keywords of a bucket that occur in the lower-cased "title snippet"
Occurring(bucket, title, snippet) ==
    {k \in ToSet(bucket) : KeywordIn(k, LowerTitle(title \o snippet))}

Clamp(lo, hi, x) == Max(lo, Min(hi, x))

\* the additive model of the scorer, in tenths
AdditiveModel(title, snippet, query) ==
    LET c == Cardinality(Occurring(critical_keywords, title, snippet))
        h == Cardinality(Occurring(high_keywords, title, snippet))
        m == Cardinality(Occurring(medium_keywords, title, snippet))
        l == Cardinality(Occurring(low_keywords, title, snippet))
        r == IF \E i \in DOMAIN query :
                    WordHas(query[i], "today") \/ WordHas(query[i], "latest")
             THEN 10 ELSE 0
        p == IF StrLen(snippet) < 50 THEN 5 ELSE 0
    IN  Clamp(0, 100, 50 + 40 * c + 25 * h + 15 * m + 5 * l + r - p)

EnhancedScored == sFn \in {"enhanced_duckduckgo_scrape", "_calculate_enhanced_impact"}

\* C18: for every title, snippet and query, _calculate_enhanced_impact
\* returns the clamp to [0, 10] of 5.0 + 4.0c + 2.5h + 1.5m + 0.5l + r - p,
\* with c, h, m, l the numbers of keywords of the critical, high, medium and
\* low buckets occurring in the lower-cased "title snippet" (each keyword
\* once, "earnings beat" and "earnings" both counted), r = 1.0 when the
\* query contains "today" or "latest" and p = 0.5 when the snippet has
\* fewer than 50 characters; a second call with the same arguments returns
\* the same value.
C18_AdditiveScorer ==
    EnhancedScored =>
        sItem.impact_score = AdditiveModel(sCall.title, sCall.snippet, sCall.query)

\* C18 witness: the scorer was called a second time for the title "Update
\* earnings beat" with a snippet of 49 characters holding "earnings beat"
\* and a query without "today" or "latest": 5.0 + 2.5 + 1.5 + 0.5 - 0.5.
C18_Witness ==
    /\ sFn = "_calculate_enhanced_impact"
    /\ sCall.title = <<"Update", "earnings", "beat">>
    /\ sCall.snippet = SnippetShort
    /\ sCall.query = QueryStock
    /\ sItem.impact_score = 90

\* C1 witness: an item of a trusted feed that the basic scorer scored 8.0
\* stands at 10.0 after the boosts; one run adds 1.5, so the cap of the
\* second run has acted.
C1_Witness ==
    /\ sFn = "_enterprise_filter_news"
    /\ sItem.source = "RSS-Reuters Business"
    /\ sItem.timestamp = NaiveAt(clock)
    /\ sItem.title = <<"Tesla", "acquisition">>
    /\ sItem.impact_score = 100

---------------------------------------------------------------------------
(* The two query flows, NewsPipeline.process_news_query and                *)
(* EnterpriseNewsPipeline.process_enterprise_query, with their adapters.   *)
(*                                                                         *)
(* An adapter is a coroutine without an await in its body: session.get     *)
(* (crawlers.py:67 and :182) and feedparser.parse (crawlers.py:116) are    *)
(* blocking calls.  From the moment the event loop starts the coroutine    *)
(* until the coroutine returns, the loop's only thread is inside it; the   *)
(* model stops the coroutine at each of these calls, where the transport   *)
(* decides what comes back.                                                *)

MaxPage    == 1     \* result blocks on a search page, entries in a feed
MaxScraped == 2     \* items one adapter call collects

UrlsPerQuery == 3
PerPage      == 5
PerFeed      == 3
max_results  == 15

Flows       == {"process_news_query", "process_enterprise_query"}
Companies   == {"Tesla", "Acme", "X", ""}    \* "" is also company=None

\* what the user typed, as its whitespace-separated words
UserInputs == {<<"hello">>, <<"Tesla", "stock", "news">>}

\* model_manager.nlp: not loaded, or loaded and finding an ORG entity in the
\* input or none
NlpOutcomes == {"not_loaded", "no_entity", "org"}

company_indicators ==
    {"stock", "shares", "ticker", "company", "corp", "inc", "ltd"}

\* EnterpriseNewsPipeline._extract_company_from_input, pipeline.py:226-251;
\* "" stands for None
_extract_company_from_input(user_input, nlp) ==
    LET hits == {i \in DOMAIN user_input :
                    LowerWord(user_input[i]) \in company_indicators /\ i > 1}
    IN  CASE nlp = "not_loaded" -> ""
          [] nlp = "org" -> user_input[1]
          [] hits = {} -> ""
          [] OTHER -> user_input[(CHOOSE i \in hits : \A j \in hits : i <= j) - 1]

\* str.strip() for blanks
RECURSIVE Strip(_)
Strip(str) ==
    IF Len(str) > 0 /\ SubSeq(str, 1, 1) = " "
    THEN Strip(SubSeq(str, 2, Len(str)))
    ELSE IF Len(str) > 0 /\ SubSeq(str, Len(str), Len(str)) = " "
    THEN Strip(SubSeq(str, 1, Len(str) - 1))
    ELSE str

\* `pattern in text` on strings
Contains(text, pattern) ==
    \E i \in 1..(Len(text) - Len(pattern) + 1) :
        SubSeq(text, i, i + Len(pattern) - 1) = pattern

invalid_patterns ==
    {"http://", "https://", "www.", ".com", ".org", ".net",
     "test", "example", "demo", "sample"}

\* utils.validate_company_name, utils.py:191-208; no flow calls it
validate_company_name(company) ==
    /\ ~(company = "" \/ Len(Strip(company)) < 2)
    /\ \A pattern \in invalid_patterns : ~Contains(LowerWord(company), pattern)

QueryRanges == {"1 hour", "24 hours", "1 week"}

\* the result blocks a search page may show
PageResults ==
    {[title |-> TitleAcquisition, href |-> "https://a.com/1", snippet |-> <<>>],
     [title |-> TitleEmpty,       href |-> "https://a.com/1", snippet |-> <<>>],
     [title |-> TitleEmpty,       href |-> "https://a.com/2", snippet |-> <<>>],
     [title |-> TitleMeeting,     href |-> "https://a.com/2", snippet |-> <<>>]}

Pages == UNION {[1..n -> PageResults] : n \in 0..MaxPage}

\* the entries a feed may hold; an entry without a title makes entry.title
\* raise AttributeError
FeedEntries ==
    {[has_title |-> TRUE, title |-> TitleAcquisition, link |-> "https://a.com/1",
      published |-> AbsentStamp],
     [has_title |-> TRUE, title |-> TitleSuit, link |-> "https://a.com/3",
      published |-> Rfc822At(0 - 30)],
     [has_title |-> FALSE, title |-> <<>>, link |-> "https://a.com/3",
      published |-> AbsentStamp]}

FeedPages == UNION {[1..n -> FeedEntries] : n \in 0..MaxPage}

\* f'RSS-{feed.feed.get("title", "Unknown")}'
FeedSources == {"RSS-Reuters Business", "RSS-Unknown"}

\* the generic feed of crawlers.py:108
GoogleFeed(company) ==
    "https://news.google.com/rss/search?q=" \o company
        \o "&hl=en-US&gl=US&ceid=US:en"

\* self.crawlers (pipeline.py:19-22) and news_tasks (pipeline.py:180-183)
Coroutines(flow) ==
    IF flow = "process_news_query"
    THEN <<"DuckDuckGoCrawler.fetch", "RSSCrawler.fetch">>
    ELSE <<"enhanced_duckduckgo_scrape", "RSSCrawler.fetch">>

\* how many blocking requests a call of the coroutine makes
Requests(coro, feeds) ==
    CASE coro = "DuckDuckGoCrawler.fetch" -> 1
      [] coro = "enhanced_duckduckgo_scrape" ->
            Len(search_queries("Tesla")) * UrlsPerQuery
      [] OTHER -> Len(feeds)

\* the query of the pos-th request of enhanced_duckduckgo_scrape
QueryOf(company, pos) == search_queries(company)[((pos - 1) \div UrlsPerQuery) + 1]

\* what the coroutine returns once its loop is over: crawlers.py:87, :129,
\* and :229-230, where _advanced_deduplication runs outside every try
Returned(coro, all_results) ==
    IF coro = "enhanced_duckduckgo_scrape"
    THEN LET unique_results == _advanced_deduplication(all_results)
         IN  IF unique_results.raised
             THEN unique_results
             ELSE [raised |-> FALSE,
                   value |-> Take(SortedDesc(unique_results.value, "impact_score"),
                                  max_results)]
    ELSE [raised |-> FALSE, value |-> all_results]

\* the entries of a feed before the first one without a title
TitledPrefix(entries) ==
    LET untitled == {i \in DOMAIN entries : ~entries[i].has_title}
    IN  IF untitled = {}
        THEN entries
        ELSE SubSeq(entries, 1, (CHOOSE i \in untitled :
                                    \A j \in untitled : i <= j) - 1)

\* asyncio.gather(*tasks), which raises the first exception of a task
gather_fail_fast(task_results) ==
    IF \E k \in DOMAIN task_results : task_results[k].raised
    THEN [raised |-> TRUE, value |-> <<>>]
    ELSE [raised |-> FALSE, value |-> task_results]

\* asyncio.gather(*tasks, return_exceptions=True), pipeline.py:38 and :186:
\* an exception of a task is one of the returned results
gather(task_results) == [raised |-> FALSE, value |-> task_results]

\* pipeline.py:40-42 and :189-192: the results that are lists, in order
RECURSIVE Combine(_)
Combine(crawler_results) ==
    IF crawler_results = <<>>
    THEN <<>>
    ELSE (IF Head(crawler_results).raised
          THEN <<>>
          ELSE Head(crawler_results).value) \o Combine(Tail(crawler_results))

Init ==
    /\ clock = 0
    /\ QueryIdle
    /\ ThreadIdle
    /\ DedupIdle
    /\ FilterIdle
    /\ ScoreIdle

\* a handler that goes on without a company
CompanyNotChecked(company) == TRUE

\* `if not company` of pipeline.py:172 is not taken: the company is neither
\* None nor the empty string
HasCompany(company) == company # ""

\* a handler is called.  process_enterprise_query takes the company from
\* the input when it got none and returns at once when there is none
\* (pipeline.py:169-175); otherwise the coroutines of the flow are created,
\* and none has started.
StartQuery ==
    /\ pc = "idle"
    /\ \E flow \in Flows, company_arg \in Companies, time_range \in QueryRanges,
          impact_threshold \in Thresholds, session_id \in Sessions,
          user_input \in UserInputs, nlp \in NlpOutcomes :
          LET company ==
                  IF flow = "process_enterprise_query" /\ company_arg = ""
                  THEN _extract_company_from_input(user_input, nlp)
                  ELSE company_arg
          IN  /\ flow = "process_news_query" => session_id = "default"
              /\ qFlow' = flow
              /\ qCompany' = company
              /\ qRange' = time_range
              /\ qThr' = impact_threshold
              /\ qSession' = session_id
              /\ IF flow = "process_enterprise_query" /\ ~HasCompany(company)
                 THEN /\ tasks' = <<>>
                      /\ pc' = "done"
                      /\ outcome' = "no_company"
                 ELSE /\ tasks' = [k \in 1..2 |->
                                     [coro |-> Coroutines(flow)[k],
                                      st |-> "pending", ok |-> FALSE,
                                      result |-> [raised |-> FALSE,
                                                  value |-> <<>>]]]
                      /\ pc' = "gather"
                      /\ UNCHANGED outcome
    /\ UNCHANGED <<frame, rss_feeds, ranked, summarized, session_data,
                   clock, dedupVars, filterVars, scoreVars,
                   threadVars>>

\* the event loop starts the k-th coroutine, which runs up to its first
\* request; the loop takes its tasks in the order gather was given them.
\* RSSCrawler.fetch appends the generic feed to the list it got from
\* rss_feeds, which is the configured list itself when the company has one
\* (crawlers.py:104-108).
StartTask(k) ==
    /\ pc = "gather"
    /\ frame = NoFrame
    /\ k \in DOMAIN tasks
    /\ tasks[k].st = "pending"
    /\ \A j \in 1..(k - 1) : tasks[j].st = "done"
    /\ tasks' = [tasks EXCEPT ![k].st = "running"]
    /\ IF tasks[k].coro = "RSSCrawler.fetch"
       THEN LET company_lower == LowerWord(qCompany)
                configured    == company_lower \in DOMAIN rss_feeds
                feeds == Append(IF configured THEN rss_feeds[company_lower]
                                              ELSE <<>>,
                                GoogleFeed(qCompany))
            IN  /\ rss_feeds' = IF configured
                                THEN [rss_feeds EXCEPT ![company_lower] = feeds]
                                ELSE rss_feeds
                /\ frame' = [task |-> k, pos |-> 1, acc |-> <<>>, ok |-> FALSE,
                             feeds |-> feeds]
       ELSE /\ frame' = [task |-> k, pos |-> 1, acc |-> <<>>, ok |-> FALSE,
                         feeds |-> <<>>]
            /\ UNCHANGED rss_feeds
    /\ UNCHANGED <<pc, qFlow, qCompany, qRange, qThr, qSession, ranked,
                   summarized, outcome, session_data,
                   clock, dedupVars, filterVars, scoreVars,
                   threadVars>>

\* after a request the running coroutine issues its next request, or
\* returns (or raises) and gives the loop back
Continue(all_results, ok) ==
    IF frame.pos < Requests(tasks[frame.task].coro, frame.feeds)
    THEN /\ frame' = [frame EXCEPT !.pos = @ + 1, !.acc = all_results, !.ok = ok]
         /\ UNCHANGED tasks
    ELSE /\ frame' = NoFrame
         /\ tasks' = [tasks EXCEPT
                         ![frame.task].st = "done",
                         ![frame.task].ok = ok,
                         ![frame.task].result =
                             Returned(tasks[frame.task].coro, all_results)]

\* session.get or feedparser.parse raises (connection error, timeout): the
\* except around the request passes to the next one (crawlers.py:89-91,
\* :127-128, :220-222)
RequestFails ==
    /\ pc = "gather"
    /\ frame # NoFrame
    /\ Continue(frame.acc, frame.ok)
    /\ UNCHANGED <<pc, qFlow, qCompany, qRange, qThr, qSession, rss_feeds,
                   ranked, summarized, outcome, session_data,
                   clock, dedupVars, filterVars, scoreVars,
                   threadVars>>

\* session.get returns a search page: crawlers.py:68-84 and :183-215
SearchPageArrives ==
    /\ pc = "gather"
    /\ frame # NoFrame
    /\ tasks[frame.task].coro # "RSSCrawler.fetch"
    /\ \E page \in Pages :
          LET shown == Take(page, PerPage)
              base  == 100 * frame.task + Len(frame.acc)
              items == [i \in DOMAIN shown |->
                          IF tasks[frame.task].coro = "DuckDuckGoCrawler.fetch"
                          THEN DuckDuckGoItem(base + i, shown[i].title,
                                              shown[i].href, clock)
                          ELSE EnhancedItem(base + i, shown[i].title,
                                            shown[i].href, shown[i].snippet,
                                            QueryOf(qCompany, frame.pos), clock)]
          IN  /\ Len(frame.acc) + Len(page) <= MaxScraped
              /\ Continue(frame.acc \o items, TRUE)
    /\ UNCHANGED <<pc, qFlow, qCompany, qRange, qThr, qSession, rss_feeds,
                   ranked, summarized, outcome, session_data,
                   clock, dedupVars, filterVars, scoreVars,
                   threadVars>>

\* feedparser.parse returns a feed: crawlers.py:116-126; an entry without a
\* title ends the feed's loop, the entries before it stay
FeedArrives ==
    /\ pc = "gather"
    /\ frame # NoFrame
    /\ tasks[frame.task].coro = "RSSCrawler.fetch"
    /\ \E entries \in FeedPages, source \in FeedSources :
          LET shown == TitledPrefix(Take(entries, PerFeed))
              base  == 100 * frame.task + Len(frame.acc)
              items == [i \in DOMAIN shown |->
                          RSSItem(base + i, shown[i].title, shown[i].link,
                                  source, shown[i].published, clock)]
          IN  /\ Len(frame.acc) + Len(entries) <= MaxScraped
              /\ entries = <<>> => source = "RSS-Unknown"
              /\ Continue(frame.acc \o items, TRUE)
    /\ UNCHANGED <<pc, qFlow, qCompany, qRange, qThr, qSession, rss_feeds,
                   ranked, summarized, outcome, session_data,
                   clock, dedupVars, filterVars, scoreVars,
                   threadVars>>

\* the results of the tasks, as gather collects them
TaskResults == [k \in DOMAIN tasks |-> tasks[k].result]

\* process_news_query after the tasks are done, pipeline.py:38-59 and
\* :125-139
FinishNewsQuery ==
    LET crawler_results == gather(TaskResults)
        all_results     == IF crawler_results.raised
                           THEN <<>>
                           ELSE Combine(crawler_results.value)
        news_items      == RankAll(all_results, time_mapping_basic(qRange), clock)
        filtered_news   == SelectSeq(news_items.value,
                                     LAMBDA item : item.impact_score >= qThr)
    IN  /\ ranked' = news_items.value
        /\ summarized' = IF news_items.raised THEN <<>> ELSE filtered_news
        /\ outcome' = CASE news_items.raised    -> "error"
                        [] news_items.value = <<>> -> "no_news"
                        [] filtered_news = <<>>    -> "below_threshold"
                        [] OTHER                   -> "summary"
        /\ UNCHANGED session_data

\* process_enterprise_query after the tasks are done, pipeline.py:186-217
FinishEnterpriseQuery ==
    LET crawler_results == gather(TaskResults)
        all_news        == IF crawler_results.raised
                           THEN <<>>
                           ELSE Combine(crawler_results.value)
        filtered_news   == _enterprise_filter_news(all_news, qThr, qRange, clock)
    IN  IF crawler_results.raised
        THEN /\ outcome' = "error"
             /\ ranked' = <<>>
             /\ summarized' = <<>>
             /\ UNCHANGED session_data
        ELSE IF all_news = <<>>
        THEN /\ outcome' = "no_news"
             /\ ranked' = <<>>
             /\ summarized' = <<>>
             /\ UNCHANGED session_data
        ELSE /\ outcome' = "response"
             /\ ranked' = filtered_news
             /\ summarized' = filtered_news
             /\ session_data' = [session_data EXCEPT ![qSession] =
                                    [last_company |-> qCompany,
                                     last_results |-> filtered_news]]

\* gather returns when every task is done, and the handler runs to its
\* return
FinishQuery ==
    /\ pc = "gather"
    /\ \A k \in DOMAIN tasks : tasks[k].st = "done"
    /\ IF qFlow = "process_news_query"
       THEN FinishNewsQuery
       ELSE FinishEnterpriseQuery
    /\ pc' = "done"
    /\ UNCHANGED <<qFlow, qCompany, qRange, qThr, qSession, tasks, frame,
                   rss_feeds, clock, dedupVars, filterVars, scoreVars,
                   threadVars>>

Next ==
    \/ StartQuery
    \/ \E k \in 1..2 : StartTask(k)
    \/ RequestFails
    \/ SearchPageArrives
    \/ FeedArrives
    \/ FinishQuery

Spec == Init /\ [][Next]_vars

---------------------------------------------------------------------------
(* Claims about the query flows *)

ItemIds(list) == {list[i].id : i \in DOMAIN list}

\* the coroutine raised, or every request of its call failed
Failed(k) == tasks[k].result.raised \/ ~tasks[k].ok

RankedByScore(list) ==
    \A i, j \in DOMAIN list : i < j => list[i].impact_score >= list[j].impact_score

\* the ranked list the flow makes of the items of one adapter alone
RankingOf(list) ==
    IF qFlow = "process_news_query"
    THEN RankAll(list, time_mapping_basic(qRange), clock).value
    ELSE _enterprise_filter_news(list, qThr, qRange, clock)

\* C2: when one of the two adapters raised or had every request fail and
\* the other returned a list, the query ends without an error and its
\* ranked list is in score order, holds items of the surviving adapter
\* only, and is the ranking of that adapter's items.
C2_PartialFailureTolerated ==
    pc = "done" =>
        \A k, j \in DOMAIN tasks :
            (k # j /\ Failed(k) /\ ~tasks[j].result.raised) =>
                /\ outcome # "error"
                /\ ItemIds(ranked) \subseteq ItemIds(tasks[j].result.value)
                /\ RankedByScore(ranked)
                /\ ItemIds(ranked) = ItemIds(RankingOf(tasks[j].result.value))

\* C2 witness: enhanced_duckduckgo_scrape raised, RSSCrawler.fetch returned
\* two items, and both are in the ranked list of the enterprise flow.
C2_Witness ==
    /\ pc = "done"
    /\ qFlow = "process_enterprise_query"
    /\ outcome = "response"
    /\ tasks[1].result.raised
    /\ Len(tasks[2].result.value) = 2
    /\ Len(ranked) = 2

\* C3: while the running adapter waits for the answer to a request, the
\* adapter after it can be started, so its request can be issued before
\* the first adapter's request has returned.
C3_SiblingStartsWhileRequestInFlight ==
    \A j \in 1..2 :
        (pc = "gather" /\ frame # NoFrame /\ tasks[j].st = "pending")
            => ENABLED StartTask(j)

\* C4: an adapter call that is over returned a list, and the empty list
\* when every request of the call failed.
C4_AdapterNeverRaises ==
    \A k \in DOMAIN tasks :
        tasks[k].st = "done" =>
            /\ ~tasks[k].result.raised
            /\ ~tasks[k].ok => tasks[k].result.value = <<>>

\* C7: the ranked list of a query, in either flow, and the list cached in
\* session_data, hold no two items with the identical URL.
C7_NoTwoRankedItemsShareUrl ==
    /\ \A i, j \in DOMAIN ranked : i # j => ranked[i].url # ranked[j].url
    /\ \A s \in Sessions :
          session_data[s] # NoSession =>
              \A i, j \in DOMAIN session_data[s].last_results :
                  i # j => session_data[s].last_results[i].url
                               # session_data[s].last_results[j].url

---------------------------------------------------------------------------
(* Truncation harness: lists longer than the cut of either ranking, made   *)
(* of low-scored items and of up to MaxHigh high-scored ones at any        *)
(* positions, are handed to the functions of the filter harness.           *)

MaxTrunc == 13      \* items in a list
MaxHigh  == 2       \* high-scored items among them

\* the i-th item of a list: every item has its own title and URL
NumberedItem(i, high, source) ==
    RSSItem(i,
            (IF high THEN TitleAcquisition ELSE TitleMeeting) \o <<ToString(i)>>,
            "https://a.com/" \o ToString(i), source, AbsentStamp, 0)

TruncInit ==
    /\ clock = 0
    /\ fRange = "24 hours"
    /\ \E n \in 0..MaxTrunc :
       \E high \in SUBSET (1..n) :
       \E source \in {"RSS-Unknown", "RSS-Reuters Business"} :
          /\ Cardinality(high) <= MaxHigh
          /\ high = {} => source = "RSS-Unknown"
          /\ fIn = [i \in 1..n |->
                       NumberedItem(i, i \in high,
                                    IF i \in high THEN source ELSE "RSS-Unknown")]
    /\ fThr = 0
    /\ fFn = "none"
    /\ fRuns = 0
    /\ fOut = [raised |-> FALSE, value |-> <<>>]
    /\ DedupIdle
    /\ ScoreIdle
    /\ QueryIdle
    /\ ThreadIdle

SpecTruncate == TruncInit /\ [][FilterNext]_vars

\* the items that survive the filters of fetch_all_news, pipeline.py:48-52
BasicSurvivors(all_results, time_range_hours, now) ==
    _filter_by_time(_deduplicate(all_results), now - time_range_hours, now)

\* the items that survive the filters of _enterprise_filter_news, with their
\* boosted scores, pipeline.py:263-308
EnterpriseSurvivors(news_items, impact_threshold, time_range, now) ==
    LET filtered == SelectSeq(news_items,
                       LAMBDA item :
                           PassesEnterpriseFilters(item, impact_threshold,
                                                   now - time_mapping(time_range)))
    IN  [i \in DOMAIN filtered |->
            RecencyBoost(CredibilityBoost(filtered[i]), now)]

\* the list is no longer than top, and no survivor left out of it has a
\* strictly higher score than an item in it
KeepsTop(returned, survivors, top) ==
    /\ Len(returned) <= top
    /\ \A i \in DOMAIN returned :
          \E j \in DOMAIN survivors : survivors[j] = returned[i]
    /\ \A j \in DOMAIN survivors :
          survivors[j].id \notin KeptIds(returned) =>
              \A i \in DOMAIN returned :
                  survivors[j].impact_score <= returned[i].impact_score

\* C11: fetch_all_news returns at most 10 items and _enterprise_filter_news
\* at most 12, every returned item is a surviving item, and no surviving
\* item that was left out has a strictly higher (post-boost) impact score
\* than a returned one.
C11_TruncationKeepsTop ==
    /\ (fFn = "fetch_all_news" /\ ~fOut.raised) =>
          KeepsTop(fOut.value, BasicSurvivors(fIn, fHours, clock), 10)
    /\ (fFn = "_enterprise_filter_news" /\ fRuns = 1) =>
          KeepsTop(fOut.value, EnterpriseSurvivors(fIn, fThr, fRange, clock), 12)

\* C11 witness: of 13 surviving items _enterprise_filter_news returned 12,
\* the high-scored last item of the input among them and first, and a
\* low-scored one was left out.
C11_Witness ==
    /\ fFn = "_enterprise_filter_news"
    /\ fRuns = 1
    /\ Len(fIn) = 13
    /\ Len(EnterpriseSurvivors(fIn, fThr, fRange, clock)) = 13
    /\ Len(fOut.value) = 12
    /\ fOut.value[1].id = 13
    /\ fOut.value[1].impact_score > fOut.value[12].impact_score

\* the items of a list that meet the threshold, process_news_query,
\* pipeline.py:129
MeetThreshold(news_items, impact_threshold) ==
    SelectSeq(news_items, LAMBDA item : item.impact_score >= impact_threshold)

\* C30: in the basic flow, filtering the list fetch_all_news returned
\* (sorted and cut to 10) by the threshold gives the list that filtering
\* the time-filtered candidates by the threshold first and then sorting and
\* cutting to 10 gives; and no candidate that meets the threshold is left
\* out while a returned item is below the threshold.
C30_ThresholdCommutesWithTruncation ==
    (fFn = "fetch_all_news" /\ ~fOut.raised) =>
        \A impact_threshold \in Thresholds :
            LET candidates == BasicSurvivors(fIn, fHours, clock)
            IN  /\ MeetThreshold(fOut.value, impact_threshold)
                      = Take(SortedDesc(MeetThreshold(candidates, impact_threshold),
                                        "impact_score_timestamp"), 10)
                /\ (\E j \in DOMAIN candidates :
                        /\ candidates[j].impact_score >= impact_threshold
                        /\ candidates[j].id \notin KeptIds(fOut.value))
                   => \A i \in DOMAIN fOut.value :
                          fOut.value[i].impact_score >= impact_threshold

\* C30 witness: of 13 candidates fetch_all_news returned 10, the two items
\* of score 8.0, the last two of the input, first; the threshold 7.0 then
\* leaves these two, and three items of score 6.0 were cut.
C30_Witness ==
    /\ fFn = "fetch_all_news"
    /\ ~fOut.raised
    /\ Len(BasicSurvivors(fIn, fHours, clock)) = 13
    /\ Len(fOut.value) = 10
    /\ fOut.value[1].id = 12 /\ fOut.value[2].id = 13
    /\ Len(MeetThreshold(fOut.value, 70)) = 2
    /\ fOut.value[10].impact_score = 60

---------------------------------------------------------------------------
(* Fixture harness: the list of test_enterprise_filter_news                *)
(* (tests/test_pipeline.py:138-153) is handed to the functions of the      *)
(* filter harness.  Hour 0 is the instant the fixture's timestamps show,   *)
(* 2024-01-01T12:00:00; the test runs at that instant or later.            *)

MaxAge == 48        \* hours between the fixture's timestamp and the run

test_news ==
    << [FixtureItem(TitleFixtureHigh, "http://example.com/high", "Reuters",
                    80, NaiveAt(0)) EXCEPT !.id = 1],
       [FixtureItem(TitleFixtureLow, "http://example.com/low", "Unknown Source",
                    30, NaiveAt(0)) EXCEPT !.id = 2] >>

FixtureInit ==
    /\ clock \in 0..MaxAge
    /\ fIn = test_news
    /\ fRange = "24 hours"
    /\ fThr = 0
    /\ fFn = "none"
    /\ fRuns = 0
    /\ fOut = [raised |-> FALSE, value |-> <<>>]
    /\ DedupIdle
    /\ ScoreIdle
    /\ QueryIdle
    /\ ThreadIdle

SpecFixture == FixtureInit /\ [][FilterNext]_vars

\* the item of the input list that has the identity of a returned item
InputOf(returned_item) ==
    fIn[CHOOSE i \in DOMAIN fIn : fIn[i].id = returned_item.id]

\* C12 as stated: _enterprise_filter_news returns no item whose score is
\* below impact_threshold, and for the test's fixture with threshold 5.0 and
\* the range "24 hours" it returns exactly one item, the 8.0 item, with a
\* score of at least 8.0.
C12_ThresholdFixture ==
    (fFn = "_enterprise_filter_news" /\ fRuns = 1) =>
        /\ \A i \in DOMAIN fOut.value :
              InputOf(fOut.value[i]).impact_score >= fThr
        /\ (fIn = test_news /\ fThr = 50 /\ fRange = "24 hours") =>
              /\ Len(fOut.value) = 1
              /\ fOut.value[1].title = TitleFixtureHigh
              /\ fOut.value[1].impact_score >= 80

---------------------------------------------------------------------------
(* Claims about the outcome of a query *)

\* the merged list of the query that is over
MergedItems == Combine(TaskResults)

\* the merged items that pass every filter of the flow but the threshold
PassedButThreshold ==
    IF qFlow = "process_news_query"
    THEN BasicSurvivors(MergedItems, time_mapping_basic(qRange), clock)
    ELSE SelectSeq(MergedItems,
                   LAMBDA item :
                       PassesEnterpriseFilters(item, 0,
                                               clock - time_mapping(qRange)))

\* the outcome the query is to report
ExpectedOutcome ==
    IF PassedButThreshold = <<>>
    THEN "no_news"
    ELSE IF \A i \in DOMAIN PassedButThreshold :
                PassedButThreshold[i].impact_score < qThr
         THEN "below_threshold"
         ELSE "result"

\* the outcome it reports: a summary or a response is a ranked result
ReportedOutcome ==
    IF outcome \in {"summary", "response"} THEN "result" ELSE outcome

\* C13 as stated: a query of either flow reports 'no news found' when no
\* item is left after de-duplication and time filtering, a below-threshold
\* outcome when items are left but none reaches impact_threshold, and a
\* ranked result, which then is not empty, otherwise; never an error.
\* (A query that had no company to ask about is not one of the three.)
C13_ThreeOutcomesToldApart ==
    (pc = "done" /\ outcome # "no_company") =>
        /\ ReportedOutcome = ExpectedOutcome
        /\ ReportedOutcome = "result" => summarized # <<>>

\* a request of an adapter has been issued in the query
FetchIssued ==
    frame # NoFrame \/ \E k \in DOMAIN tasks : tasks[k].st # "pending"

\* C14 as stated: in a query whose entity name is empty or shorter than 2
\* characters after trimming, no adapter request is issued, in either flow.
C14_InvalidNameNeverFetched ==
    (pc # "idle" /\ Len(Strip(qCompany)) < 2) => ~FetchIssued

---------------------------------------------------------------------------
(* Queries one after another, and concurrent queries, on one shared        *)
(* EnterpriseNewsPipeline.  Each UI request runs process_enterprise_query   *)
(* in a thread of its own with an event loop of its own                    *)
(* (interface.py:185-197).  The answers of the network are an input of     *)
(* the query here: the gather step of a thread takes all_news from a small *)
(* set of lists, and does to rss_feeds what RSSCrawler.fetch does.         *)

MaxQueries == 2     \* queries made in one behaviour

ThreadCompanies == {"Tesla", ""}       \* "" is also company=None

\* the merged lists of the two adapters
NewsLists(now) ==
    {<<>>,
     <<EnhancedItem(101, TitleAcquisition, "https://a.com/1", <<>>,
                    search_queries("Tesla")[3], now)>>,
     <<RSSItem(201, TitleMeeting, "https://a.com/2", "RSS-Unknown",
               AbsentStamp, now)>>}

\* the list RSSCrawler.fetch iterates over, crawlers.py:104-108
FeedsPolled(feeds_map, company) ==
    Append(IF LowerWord(company) \in DOMAIN feeds_map
           THEN feeds_map[LowerWord(company)]
           ELSE <<>>,
           GoogleFeed(company))

\* rss_feeds after the append of crawlers.py:108: the list of a configured
\* company is the list of the map
FeedsAfter(feeds_map, company) ==
    IF LowerWord(company) \in DOMAIN feeds_map
    THEN [feeds_map EXCEPT ![LowerWord(company)] = FeedsPolled(feeds_map, company)]
    ELSE feeds_map

\* a store that ignores the session id
StoreUnderDefault(data, session_id, record) ==
    [data EXCEPT !["default"] = record]

\* self.session_data[session_id] = {...}, pipeline.py:201-206: one store of
\* a dict that is already built
StoreSession(data, session_id, record) ==
    [data EXCEPT ![session_id] = record]

\* self.session_data.get(session_id, {}), pipeline.py:313-315
get_session_data(data, session_id) == data[session_id]

\* the dict of pipeline.py:201-206 (processing_time left out)
SessionRecord(company, filtered_news, now) ==
    [last_company |-> company, last_results |-> filtered_news,
     query_time |-> now]

SessionInit ==
    /\ clock = 0
    /\ DedupIdle
    /\ FilterIdle
    /\ ScoreIdle
    /\ QueryIdle
    /\ pool = {1}
    /\ tPc = [t \in Threads |-> "idle"]
    /\ tArgs = [t \in Threads |-> NoArgs]
    /\ tNews = [t \in Threads |-> <<>>]
    /\ tFeeds = [t \in Threads |-> <<>>]
    /\ tOut = [t \in Threads |-> NoOut]
    /\ nQueries = 0
    /\ recent = [s \in Sessions |-> NoSession]

ConcurrentInit ==
    /\ clock = 0
    /\ DedupIdle
    /\ FilterIdle
    /\ ScoreIdle
    /\ QueryIdle
    /\ pool = Threads
    /\ tPc = [t \in Threads |-> "idle"]
    /\ tArgs = [t \in Threads |-> NoArgs]
    /\ tNews = [t \in Threads |-> <<>>]
    /\ tFeeds = [t \in Threads |-> <<>>]
    /\ tOut = [t \in Threads |-> NoOut]
    /\ nQueries = 0
    /\ recent = [s \in Sessions |-> NoSession]

\* thread t enters process_enterprise_query, pipeline.py:165-177; without
\* a company it returns at once
CallEnterpriseQuery(t) ==
    /\ t \in pool
    /\ tPc[t] = "idle"
    /\ nQueries < MaxQueries
    /\ nQueries' = nQueries + 1
    /\ clock' = clock + 1
    /\ \E company_arg \in ThreadCompanies, impact_threshold \in Thresholds,
          session_id \in Sessions, user_input \in UserInputs,
          nlp \in NlpOutcomes :
          LET company == IF company_arg = ""
                         THEN _extract_company_from_input(user_input, nlp)
                         ELSE company_arg
          IN  /\ tArgs' = [tArgs EXCEPT ![t] =
                              [company |-> company,
                               impact_threshold |-> impact_threshold,
                               time_range |-> "24 hours",
                               session_id |-> session_id]]
              /\ IF ~HasCompany(company)
                 THEN /\ tOut' = [tOut EXCEPT ![t] = [outcome |-> "no_company"]]
                      /\ UNCHANGED tPc
                 ELSE /\ tPc' = [tPc EXCEPT ![t] = "gather"]
                      /\ tOut' = [tOut EXCEPT ![t] = NoOut]
    /\ UNCHANGED <<pool, tNews, tFeeds, recent, rss_feeds, session_data,
                   flowVars, dedupVars, filterVars, scoreVars>>

\* the event loop of thread t runs the two adapters, pipeline.py:180-192
GatherNews(t) ==
    /\ tPc[t] = "gather"
    /\ tFeeds' = [tFeeds EXCEPT ![t] = FeedsPolled(rss_feeds, tArgs[t].company)]
    /\ rss_feeds' = FeedsAfter(rss_feeds, tArgs[t].company)
    /\ \E all_news \in NewsLists(clock) : tNews' = [tNews EXCEPT ![t] = all_news]
    /\ tPc' = [tPc EXCEPT ![t] = "gathered"]
    /\ UNCHANGED <<pool, tArgs, tOut, nQueries, recent, clock, session_data,
                   flowVars, dedupVars, filterVars, scoreVars>>

\* the rest of the handler, pipeline.py:194-217
ReturnFromQuery(t) ==
    /\ tPc[t] = "gathered"
    /\ tPc' = [tPc EXCEPT ![t] = "idle"]
    /\ LET a == tArgs[t]
           filtered_news == _enterprise_filter_news(tNews[t], a.impact_threshold,
                                                    a.time_range, clock)
           record == SessionRecord(a.company, filtered_news, clock)
       IN  IF tNews[t] = <<>>
           THEN /\ tOut' = [tOut EXCEPT ![t] = [outcome |-> "no_news"]]
                /\ recent' = [recent EXCEPT ![a.session_id] =
                                 SessionRecord(a.company, <<>>, clock)]
                /\ UNCHANGED session_data
           ELSE /\ session_data' = StoreSession(session_data, a.session_id, record)
                /\ tOut' = [tOut EXCEPT ![t] =
                               [outcome |-> "response", record |-> record]]
                /\ recent' = [recent EXCEPT ![a.session_id] = record]
    /\ UNCHANGED <<pool, tArgs, tNews, tFeeds, nQueries, clock, rss_feeds,
                   flowVars, dedupVars, filterVars, scoreVars>>

\* clear_session_data, pipeline.py:317-320
clear_session_data(session_id) ==
    /\ session_data[session_id] # NoSession
    /\ session_data' = [session_data EXCEPT ![session_id] = NoSession]
    /\ recent' = [recent EXCEPT ![session_id] = NoSession]
    /\ UNCHANGED <<pool, tPc, tArgs, tNews, tFeeds, tOut, nQueries, clock,
                   rss_feeds, flowVars, dedupVars, filterVars, scoreVars>>

SessionNext ==
    \/ \E t \in Threads : CallEnterpriseQuery(t)
    \/ \E t \in Threads : GatherNews(t)
    \/ \E t \in Threads : ReturnFromQuery(t)
    \/ \E session_id \in Sessions : clear_session_data(session_id)

SpecSession    == SessionInit /\ [][SessionNext]_vars
SpecConcurrent == ConcurrentInit /\ [][SessionNext]_vars

---------------------------------------------------------------------------
(* Claims about the session cache and the state a query leaves behind *)

NoQueryRunning == \A t \in Threads : tPc[t] = "idle"

\* C15 as stated: after any sequence of queries the snapshot of a session
\* is the record of the query that ended last for it; when that query had
\* no results, the snapshot has none (an absent snapshot is accepted).
C15_SnapshotIsLastQuery ==
    NoQueryRunning =>
        \A s \in Sessions :
            recent[s] # NoSession =>
                IF get_session_data(session_data, s) = NoSession
                THEN recent[s].last_results = <<>>
                ELSE get_session_data(session_data, s) = recent[s]

\* thread t returns from a query that stored its record
StoresRecord(t) ==
    /\ tPc[t] = "gathered"
    /\ tPc'[t] = "idle"
    /\ tOut'[t].outcome = "response"

\* C16: with concurrent queries on one pipeline, every change of the entry
\* of a session is the removal of the entry by clear_session_data or the
\* store, by a query of that very session, of the complete record of that
\* query; so a query never changes the entry of another session and an
\* entry is never a mixture of two queries' fields.
C16_EntriesWrittenWholeByOwnSession ==
    [][\A s \in Sessions :
          session_data'[s] # session_data[s] =>
              \/ session_data'[s] = NoSession
              \/ \E t \in Threads :
                    /\ StoresRecord(t)
                    /\ tArgs[t].session_id = s
                    /\ session_data'[s] =
                          SessionRecord(tArgs[t].company,
                                        _enterprise_filter_news(
                                            tNews[t], tArgs[t].impact_threshold,
                                            tArgs[t].time_range, clock),
                                        clock)]_vars

\* C16 witness: two queries that ran at the same time (both were called
\* before either returned) wrote different records for the same session;
\* the entry is the record of thread 1, and the other session has no entry.
C16_Witness ==
    /\ NoQueryRunning
    /\ pool = Threads
    /\ tOut[1].outcome = "response" /\ tOut[2].outcome = "response"
    /\ tArgs[1].session_id = "user-1" /\ tArgs[2].session_id = "user-1"
    /\ tOut[1].record.query_time = 2 /\ tOut[2].record.query_time = 2
    /\ tOut[1].record # tOut[2].record
    /\ session_data["user-1"] = tOut[1].record
    /\ session_data["default"] = NoSession

\* a step in which a query is called without a company, given or extracted
CalledWithoutCompany(t) ==
    /\ tPc[t] = "idle"
    /\ nQueries' = nQueries + 1
    /\ tArgs'[t].company = ""

\* C25: when no entity name is supplied and the extractor finds none,
\* process_enterprise_query returns the conversational fallback in the same
\* step: no adapter is called then or later for that query (no feed is
\* polled, no list gathered) and session_data stays as it was.
C25_NoCompanyNoAggregation ==
    /\ [][\A t \in pool :
             CalledWithoutCompany(t) =>
                 /\ tOut'[t].outcome = "no_company"
                 /\ tPc'[t] = "idle"
                 /\ session_data' = session_data
                 /\ rss_feeds' = rss_feeds
                 /\ tNews' = tNews /\ tFeeds' = tFeeds]_vars
    /\ [](\A t \in Threads : tPc[t] # "idle" => tArgs[t].company # "")

\* C25 witness: after a query that stored its record for the session, a
\* query without a company returned the fallback and the record is still
\* the first query's.
C25_Witness ==
    /\ nQueries = 2
    /\ tOut[1].outcome = "no_company"
    /\ tArgs[1].company = ""
    /\ tArgs[1].session_id = "default"
    /\ session_data["default"] # NoSession
    /\ session_data["default"].last_company = "Tesla"

\* C17 as stated: a query leaves config.crawler.rss_feeds as it was
\* configured, and every call of RSSCrawler.fetch polls the feed URLs the
\* first call for the company polls.
C17_QueriesLeaveFeedsUnchanged ==
    /\ rss_feeds = ConfiguredFeeds
    /\ \A t \in Threads :
          tPc[t] = "gathered" =>
              tFeeds[t] = FeedsPolled(ConfiguredFeeds, tArgs[t].company)

---------------------------------------------------------------------------
(* The recency window of a query *)

\* the hours the flow of the query computes from its time_range:
\* pipeline.py:117-118 for process_news_query, pipeline.py:257-258 for
\* _enterprise_filter_news
QueryHours ==
    IF qFlow = "process_news_query"
    THEN time_mapping_basic(qRange)
    ELSE time_mapping(qRange)

\* C20 as stated: the window is 1 hour for "1 hour", 6 for "6 hours", 24
\* for "24 hours", 168 for "1 week" and 24 for every other value, in both
\* query flows.
C20_WindowOfTimeRange ==
    pc \in {"gather", "done"} =>
        QueryHours = CASE qRange = "1 hour" -> 1
                       [] qRange = "6 hours" -> 6
                       [] qRange = "24 hours" -> 24
                       [] qRange = "1 week" -> 168
                       [] OTHER -> 24

---------------------------------------------------------------------------
(* The scenario of two items for "Tesla": an acquisition item of source    *)
(* reuters timestamped now and a meeting item of source blogsite two hours *)
(* old, each scored by the adapter that built it, handed to                *)
(* _enterprise_filter_news with the window of 24 hours.                    *)

ScenarioThresholds == {50, 55, 56, 60, 61}

\* a snippet of 62 characters without a keyword
SnippetPlain ==
    <<"Shares", "of", "the", "electric", "carmaker", "were", "little",
      "changed", "in", "trading">>

\* how the adapter scored the item: DuckDuckGoCrawler and RSSCrawler call
\* _calculate_impact(title) (crawlers.py:83, :124), the enhanced scrape
\* calls _calculate_enhanced_impact(title, snippet, query) (crawlers.py:204)
Scorings ==
    {[fn |-> "_calculate_impact", snippet |-> <<>>, query |-> <<>>]}
    \cup {[fn |-> "_calculate_enhanced_impact", snippet |-> snippet,
           query |-> query] :
              snippet \in {<<>>, SnippetPlain}, query \in ScoreQueries}

ScoredBy(scoring, title) ==
    IF scoring.fn = "_calculate_impact"
    THEN _calculate_impact(title, <<>>)
    ELSE _calculate_enhanced_impact(title, scoring.snippet, scoring.query)

AcquisitionItem(scoring, now) ==
    [id |-> 1, title |-> TitleAcquisition, url |-> OwnUrl(1),
     source |-> "reuters", timestamp |-> NaiveAt(now),
     impact_score |-> ScoredBy(scoring, TitleAcquisition)]

MeetingItem(scoring, now) ==
    [id |-> 2, title |-> TitleMeeting, url |-> OwnUrl(2),
     source |-> "blogsite", timestamp |-> NaiveAt(now - 2),
     impact_score |-> ScoredBy(scoring, TitleMeeting)]

ScenarioInit ==
    /\ clock = 0
    /\ fRange = "24 hours"
    /\ \E sa \in Scorings, sm \in Scorings :
          fIn \in {<<AcquisitionItem(sa, clock), MeetingItem(sm, clock)>>,
                   <<MeetingItem(sm, clock), AcquisitionItem(sa, clock)>>}
    /\ fThr = 0
    /\ fFn = "none"
    /\ fRuns = 0
    /\ fOut = [raised |-> FALSE, value |-> <<>>]
    /\ DedupIdle
    /\ ScoreIdle
    /\ QueryIdle
    /\ ThreadIdle

ScenarioQuery == CallEnterpriseFilterAt(ScenarioThresholds)

SpecScenario == ScenarioInit /\ [][ScenarioQuery]_vars

\* the returned item of the given id, or NoItem
ItemReturned(i) ==
    IF i \in KeptIds(fOut.value)
    THEN fOut.value[CHOOSE k \in DOMAIN fOut.value : fOut.value[k].id = i]
    ELSE NoItem

\* C19 as stated: with threshold 5.0 the result holds the acquisition item
\* first, with a score of at least 9 after the boost, and the meeting item
\* with a score of about 5.5 (nearer to 5.5 than to 5.0 or 6.0); the
\* meeting item is missing exactly at the thresholds above 5.5.
C19_ScenarioOfTwoItems ==
    fFn = "_enterprise_filter_news" =>
        /\ fThr = 50 =>
              /\ ItemReturned(1) # NoItem
              /\ ItemReturned(1).impact_score >= 90
              /\ fOut.value[1].id = 1
              /\ ItemReturned(2) # NoItem
              /\ ItemReturned(2).impact_score > 52
              /\ ItemReturned(2).impact_score < 58
        /\ ItemReturned(2) = NoItem <=> fThr > 55

---------------------------------------------------------------------------
(* Claims about the ranking-time boosts of _enterprise_filter_news *)

\* `needle in text` on strings
IsSubstring(needle, text) ==
    \E i \in 1..(Len(text) - Len(needle) + 1) :
        SubSeq(text, i, i + Len(needle) - 1) = needle

TrustedSource(source) ==
    \E name \in {"reuters", "bloomberg", "cnbc", "ap", "wsj"} :
        IsSubstring(name, LowerSource(source))

\* the score of an input item after the credibility step alone
AfterCredibility(item) ==
    IF TrustedSource(item.source)
    THEN Min(item.impact_score + 10, 100)
    ELSE item.impact_score

FirstEnterpriseRun == fFn = "_enterprise_filter_news" /\ fRuns = 1

\* C21: an item returned by one run of _enterprise_filter_news has its
\* score raised by exactly 1.0, capped at 10.0, if and only if its
\* lower-cased source contains reuters, bloomberg, cnbc, ap or wsj, and
\* raised so once: its returned score is the score after that step, or that
\* score with the freshness boost of 0.5.
C21_CredibilityBoostOnce ==
    FirstEnterpriseRun =>
        \A i \in DOMAIN fOut.value :
            fOut.value[i].impact_score \in
                {AfterCredibility(InputOf(fOut.value[i])),
                 Min(AfterCredibility(InputOf(fOut.value[i])) + 5, 100)}

\* C21 witness: one run returned an item of the feed "RSS-Snapchat News",
\* trusted by the "ap" in its name, scored 8.0 by the adapter, and an item of
\* "RSS-Unknown" with its score of 8.0 not raised by 1.0.
C21_Witness ==
    /\ FirstEnterpriseRun
    /\ \E i \in DOMAIN fOut.value :
          /\ fOut.value[i].source = "RSS-Snapchat News"
          /\ InputOf(fOut.value[i]).impact_score = 80
          /\ fOut.value[i].impact_score >= 90
    /\ \E i \in DOMAIN fOut.value :
          /\ fOut.value[i].source = "RSS-Unknown"
          /\ InputOf(fOut.value[i]).impact_score = 80
          /\ fOut.value[i].impact_score <= 85

\* the item's timestamp is an ISO string, with or without an offset, of an
\* instant less than one hour before now
ParsesAndFresh(item, now) ==
    /\ item.timestamp.form \in {"naive", "aware"}
    /\ now - (item.timestamp.wall - item.timestamp.off) < 1

\* C22: an item returned by one run of _enterprise_filter_news has its
\* score raised by 0.5, capped at 10.0, exactly when its timestamp parses
\* and its age is under one hour; an item whose timestamp is absent, empty
\* or unparseable is not raised.
C22_FreshnessBoost ==
    FirstEnterpriseRun =>
        \A i \in DOMAIN fOut.value :
            LET input == InputOf(fOut.value[i])
                base  == CredibilityBoost(input).impact_score
            IN  fOut.value[i].impact_score =
                    IF ParsesAndFresh(input, clock)
                    THEN Min(base + 5, 100)
                    ELSE base

\* C22 witness: one run returned an item stamped now with an offset, raised
\* from 8.0 to 8.5, and an item with an RFC 822 date, kept at 8.0.
C22_Witness ==
    /\ FirstEnterpriseRun
    /\ \E i \in DOMAIN fOut.value :
          /\ fOut.value[i].timestamp = AwareAt(clock, 0)
          /\ InputOf(fOut.value[i]).impact_score = 80
          /\ fOut.value[i].impact_score = 85
    /\ \E i \in DOMAIN fOut.value :
          /\ fOut.value[i].timestamp.form = "rfc822"
          /\ InputOf(fOut.value[i]).impact_score = 80
          /\ fOut.value[i].impact_score = 80

---------------------------------------------------------------------------
(* Claims about the basic scorer *)

\* the keywords of a bucket that are substrings of a lower-cased word of
\* the title
MatchedIn(bucket, title) ==
    {k \in bucket :
        \E i \in DOMAIN title : IsSubstring(k, LowerWord(title[i]))}

HighBucket ==
    {"acquisition", "merger", "lawsuit", "bankruptcy", "ceo", "scandal",
     "investigation"}
MediumBucket ==
    {"earnings", "revenue", "partnership", "launch", "investment",
     "breakthrough"}
LowBucket == {"update", "comment", "statement", "meeting", "interview"}

BasicScored == sFn = "DuckDuckGoCrawler.fetch"

OnlyLowMatched(title) ==
    MatchedIn(HighBucket, title) = {} /\ MatchedIn(MediumBucket, title) = {}

\* C24 as stated: with _calculate_impact every title with a high-impact
\* keyword scores above 7.0, and every title whose matched keywords are all
\* of the low-impact bucket scores below 7.0.
C24_HighAboveLowBelow ==
    BasicScored =>
        /\ MatchedIn(HighBucket, sItem.title) # {} => sItem.impact_score > 70
        /\ OnlyLowMatched(sItem.title) => sItem.impact_score < 70

\* C24 as amended: every title with a high-impact keyword scores at least
\* 8.0; a title whose matched keywords are all of the low-impact bucket
\* scores 5.0 plus 0.5 for each of them, which is below 7.0 for up to three
\* keywords, 7.0 for four and 7.5 for five; the test's titles score 8.0 and
\* 6.0.
C24_LowBucketAdds ==
    BasicScored =>
        /\ MatchedIn(HighBucket, sItem.title) # {} => sItem.impact_score >= 80
        /\ OnlyLowMatched(sItem.title) =>
              sItem.impact_score =
                  50 + 5 * Cardinality(MatchedIn(LowBucket, sItem.title))
        /\ sItem.title = TitleAcquisitionDeal => sItem.impact_score = 80
        /\ sItem.title = TitleMeeting => sItem.impact_score = 60

\* C24 witness: a title of four low-impact keywords and no other was scored
\* 7.0.
C24_Witness ==
    /\ BasicScored
    /\ sItem.title = <<"update", "comment", "statement", "meeting">>
    /\ sItem.impact_score = 70

---------------------------------------------------------------------------
(* Claims about the criteria of the enterprise filter *)

\* an absolute http:// or https:// URL
IsHttpUrl(url) ==
    \/ Len(url) >= 7 /\ SubSeq(url, 1, 7) = "http://"
    \/ Len(url) >= 8 /\ SubSeq(url, 1, 8) = "https://"

\* one of the stated criteria applies to the item
StatedDrop(item, impact_threshold, cutoff_time) ==
    \/ item.impact_score < impact_threshold
    \/ OlderThanCutoff(item, cutoff_time)
    \/ StrLen(item.title) < 10
    \/ ~IsHttpUrl(item.url)

\* C26 as stated: _enterprise_filter_news drops an item if and only if its
\* score is below the threshold, its parseable timestamp is older than the
\* cutoff, its title is shorter than 10 characters or its URL is missing or
\* not an http(s) URL; every other item is kept (the lists are shorter than
\* the truncation to 12), and every kept item has an http:// or https:// URL.
C26_DroppedIffStatedCriterion ==
    FirstEnterpriseRun =>
        /\ \A i \in DOMAIN fIn :
              fIn[i].id \notin KeptIds(fOut.value)
              <=> StatedDrop(fIn[i], fThr, clock - fHours)
        /\ \A i \in DOMAIN fOut.value : IsHttpUrl(fOut.value[i].url)

\* C28 as stated: _enterprise_filter_news applied, with the same threshold
\* and window and at the same instant, to the list it returned yields that
\* list again: the same items in the same order with the same scores.
C28_FilterIdempotent ==
    [][(fFn = "_enterprise_filter_news" /\ fRuns' = fRuns + 1)
           => fOut'.value = fOut.value]_vars

=============================================================================
